---- MODULE Spec2Model ----
(***************************************************************************)
(* Model of the PR design-review bot: the Confluence document client       *)
(* (versioned update, append, sanitizer), the review pipeline              *)
(* (PRReviewer.reviewPR / reviewMultiplePRs) and the meeting pipeline      *)
(* (MeetingSummarizer.processMeeting / processMultipleMeetings).           *)
(*                                                                         *)
(* Strings of the program are modelled as sequences of tokens; a token is  *)
(* a character or an indivisible run of characters (a tag name, an entity, *)
(* a word).  Every outbound HTTP call is one step: the remote handles the  *)
(* request atomically and the awaiting function resumes with the outcome.  *)
(***************************************************************************)
EXTENDS Integers, Sequences, FiniteSets, TLC

\* ------------------------------------------------------------------------
\* Bounds of the model
\* ------------------------------------------------------------------------
MaxCalls == 3
MaxBatch == 2
MaxExternalEdits == 1
MaxTextLen == 2
MaxDescLen == 2
MaxRequests == 2
MaxOutputLen == 2
MaxParts == 1
MaxContentLen == 4

\* Requests that reach the creation of the orchestrator of a server
MaxLazyRequests == 3

\* ------------------------------------------------------------------------
\* Generic helpers on token sequences
\* ------------------------------------------------------------------------
Range(s) == {s[i] : i \in 1..Len(s)}

IsPrefix(s, t) == Len(s) <= Len(t) /\ SubSeq(t, 1, Len(s)) = s

Min(S) == CHOOSE x \in S : \A y \in S : x <= y

Max(S) == CHOOSE x \in S : \A y \in S : x >= y

RECURSIVE SeqsUpTo(_, _)
SeqsUpTo(S, n) ==
  IF n = 0 THEN {<<>>}
  ELSE LET shorter == SeqsUpTo(S, n - 1)
       IN shorter \cup {Append(s, x) : s \in {t \in shorter : Len(t) = n - 1}, x \in S}

\* ------------------------------------------------------------------------
\* Errors.  "new Error(msg)" carries no HTTP response (status 0); an axios
\* error carries the status of the response, or 0 when there was none.
\* ------------------------------------------------------------------------
\* The data of an error response: nothing, a text, or an object that may have
\* an "errors" member (the field errors reported by the remote)
NoData == [kind |-> "none", hasErrors |-> FALSE, errors |-> <<>>, text |-> ""]

TextData(text) == [kind |-> "text", hasErrors |-> FALSE, errors |-> <<>>, text |-> text]

ObjectData(hasErrors, errors, text) ==
  [kind |-> "object", hasErrors |-> hasErrors, errors |-> errors, text |-> text]

\* An error: its message (msg, and details for the part of the message made
\* from data) and the response it carries (status, data)
NoError == [msg |-> "", details |-> <<>>, status |-> -1, data |-> NoData]

NewError(msg) == [msg |-> msg, details |-> <<>>, status |-> 0, data |-> NoData]

AxiosError(status) == [msg |-> "Request failed", details |-> <<>>, status |-> status, data |-> NoData]

AxiosErrorWithData(status, data) == [AxiosError(status) EXCEPT !.data = data]

\* JSON.stringify of a string
StringifyText(text) == <<"\"", text, "\"">>

\* JSON.stringify of an array of strings
RECURSIVE StringifyElements(_)
StringifyElements(list) ==
  IF list = <<>> THEN <<>>
  ELSE IF Len(list) = 1 THEN StringifyText(list[1])
  ELSE StringifyText(list[1]) \o <<",">> \o StringifyElements(Tail(list))

StringifyArray(list) == <<"[">> \o StringifyElements(list) \o <<"]">>

\* JSON.stringify of response data
JsonStringify(data) ==
  IF data.kind = "text" THEN StringifyText(data.text)
  ELSE IF data.kind = "object"
  THEN <<"{">>
         \o (IF data.hasErrors THEN <<"\"errors\"", ":">> \o StringifyArray(data.errors) \o <<",">>
             ELSE <<>>)
         \o <<"\"message\"", ":">> \o StringifyText(data.text) \o <<"}">>
  ELSE <<>>

\* Outcomes of a failing HTTP call: no response at all (0) or an error status.
FailStatuses == {0, 400, 401, 403, 404, 500}

\* ------------------------------------------------------------------------
\* ConfluenceService.extractPageId
\* A URL is the sequence of its "/"-separated segments; a segment is
\* <<kind, value>> with kind "txt" (any text), "num" (digits only) or
\* "qry" (text containing pageId=<digits>, value = the digits).
\* ------------------------------------------------------------------------
UrlPages == << <<"txt","https:">>, <<"txt","">>, <<"txt","x.atlassian.net">>, <<"txt","wiki">>,
               <<"txt","spaces">>, <<"txt","S">>, <<"txt","pages">>, <<"num","123456">>, <<"txt","Title">> >>

UrlPageIdQuery == << <<"txt","https:">>, <<"txt","">>, <<"txt","x.atlassian.net">>, <<"txt","wiki">>,
                     <<"txt","display">>, <<"txt","S">>, <<"qry","123456">> >>

UrlTrailing == << <<"txt","https:">>, <<"txt","">>, <<"txt","x.atlassian.net">>,
                  <<"num","123456">>, <<"txt","Title">> >>

UrlNoId == << <<"txt","https:">>, <<"txt","">>, <<"txt","x.atlassian.net">>, <<"txt","wiki">>,
              <<"txt","pages">>, <<"txt","Title">> >>

UrlPagesLast == << <<"txt","https:">>, <<"txt","">>, <<"txt","x.atlassian.net">>,
                   <<"txt","pages">>, <<"num","123456">> >>

Urls == {UrlPages, UrlPageIdQuery, UrlTrailing, UrlNoId, UrlPagesLast}

NoPageId == "null"

\* /\/pages\/(\d+)\//
PagesPatternMatches(url) ==
  {i \in 2..(Len(url) - 2) : url[i] = <<"txt","pages">> /\ url[i+1][1] = "num"}

\* /pageId=(\d+)/
PageIdPatternMatches(url) == {i \in 1..Len(url) : url[i][1] = "qry"}

\* /\/(\d+)\/[^\/]*$/
TrailingPatternMatches(url) ==
  {i \in 2..(Len(url) - 1) : i = Len(url) - 1 /\ url[i][1] = "num"}

extractPageId(url) ==
  IF PagesPatternMatches(url) # {} THEN url[Min(PagesPatternMatches(url)) + 1][2]
  ELSE IF PageIdPatternMatches(url) # {} THEN url[Min(PageIdPatternMatches(url))][2]
  ELSE IF TrailingPatternMatches(url) # {} THEN url[Min(TrailingPatternMatches(url))][2]
  ELSE NoPageId

\* ------------------------------------------------------------------------
\* ConfluenceService.sanitizeContentForConfluence
\* Content tokens: the characters "<", ">", "/", a bare "&" (one that does
\* not start an entity), " " (whitespace), the entities "&amp;", "&lt;",
\* "&gt;", and words (tag names, text).  NullContent is a missing or
\* non-string argument.
\* ------------------------------------------------------------------------
NullContent == <<"null">>

AllowedTags == {"h1", "h2", "h3", "h4", "h5", "h6", "p", "ul", "ol", "li",
                "strong", "em", "br", "hr", "div", "span"}

selfClosingTags == {"br", "hr", "img"}

Entities == {"&amp;", "&lt;", "&gt;", "&quot;", "&#39;"}

\* String.toLowerCase / the i flag, on the upper-case words of the model
ToLower(tok) ==
  CASE tok = "P" -> "p"
    [] tok = "DIV" -> "div"
    [] tok = "SCRIPT" -> "script"
    [] OTHER -> tok

IsWord(tok) == tok \notin ({"<", ">", "/", "&", " "} \cup Entities)

\* .replace(/&(?!amp;|lt;|gt;|quot;|#39;)/g,'&amp;').replace(/</g,'&lt;').replace(/>/g,'&gt;')
EscapeToken(tok) ==
  CASE tok = "&" -> "&amp;"
    [] tok = "<" -> "&lt;"
    [] tok = ">" -> "&gt;"
    [] OTHER -> tok

EscapeAll(s) == [i \in 1..Len(s) |-> EscapeToken(s[i])]

\* Mutant of SafeTagEnd: any tag name is let through
SafeTagEndAnyName(s, i) ==
  IF s[i] # "&lt;" THEN 0
  ELSE LET n == IF i + 1 <= Len(s) /\ s[i+1] = "/" THEN i + 2 ELSE i + 1
       IN IF n + 1 > Len(s) \/ ~IsWord(s[n]) THEN 0
          ELSE IF s[n+1] = "&gt;" THEN n + 1
          ELSE IF s[n+1] # " " THEN 0
          ELSE LET amps == {j \in (n+2)..Len(s) : s[j] \in Entities}
               IN IF amps # {} /\ s[Min(amps)] = "&gt;" THEN Min(amps) ELSE 0

\* Index of the "&gt;" that ends a match of
\* /&lt;(\/?(h[1-6]|p|...|span)(\s[^&]*?)?)&gt;/gi starting at i, or 0.
SafeTagEnd(s, i) ==
  IF s[i] # "&lt;" THEN 0
  ELSE LET n == IF i + 1 <= Len(s) /\ s[i+1] = "/" THEN i + 2 ELSE i + 1
       IN IF n + 1 > Len(s) \/ ToLower(s[n]) \notin AllowedTags THEN 0
          ELSE IF s[n+1] = "&gt;" THEN n + 1
          ELSE IF s[n+1] # " " THEN 0
          ELSE LET amps == {j \in (n+2)..Len(s) : s[j] \in Entities}
               IN IF amps # {} /\ s[Min(amps)] = "&gt;" THEN Min(amps) ELSE 0

RECURSIVE AllowSafeTags(_, _)
AllowSafeTags(s, i) ==
  IF i > Len(s) THEN <<>>
  ELSE LET e == SafeTagEnd(s, i)
       IN IF e > 0
          THEN <<"<">> \o SubSeq(s, i + 1, e - 1) \o <<">">> \o AllowSafeTags(s, e + 1)
          ELSE <<s[i]>> \o AllowSafeTags(s, i + 1)

\* Index of the ">" that ends a match of /<(\w+)(?:\s[^>]*)?>/ starting at i, or 0.
OpenTagEnd(s, i) ==
  IF s[i] # "<" \/ i + 2 > Len(s) \/ ~IsWord(s[i+1]) THEN 0
  ELSE IF s[i+2] = ">" THEN i + 2
  ELSE IF s[i+2] # " " THEN 0
  ELSE LET gts == {j \in (i+3)..Len(s) : s[j] = ">"}
       IN IF gts # {} THEN Min(gts) ELSE 0

\* [...cleanContent.matchAll(tagPattern)].map(m => m[1].toLowerCase())
RECURSIVE OpenTagNames(_, _)
OpenTagNames(s, i) ==
  IF i > Len(s) THEN <<>>
  ELSE LET e == OpenTagEnd(s, i)
       IN IF e > 0 THEN <<ToLower(s[i+1])>> \o OpenTagNames(s, e + 1)
          ELSE OpenTagNames(s, i + 1)

\* Matches of /<\/(\w+)>/
CloseTagIsAt(s, i) ==
  /\ i + 3 <= Len(s)
  /\ s[i] = "<" /\ s[i+1] = "/" /\ IsWord(s[i+2]) /\ s[i+3] = ">"

RECURSIVE CloseTagNames(_, _)
CloseTagNames(s, i) ==
  IF i > Len(s) THEN <<>>
  ELSE IF CloseTagIsAt(s, i) THEN <<ToLower(s[i+2])>> \o CloseTagNames(s, i + 4)
  ELSE CloseTagNames(s, i + 1)

OpenTagsFiltered(s) == SelectSeq(OpenTagNames(s, 1), LAMBDA t : t \notin selfClosingTags)

WrapInParagraph(s) == <<"<", "p", ">">> \o s \o <<"<", "/", "p", ">">>

WrapInDiv(s) == <<"<", "div", ">">> \o s \o <<"<", "/", "div", ">">>

NoContentProvided == <<"<", "p", ">", "No content provided", "<", "/", "p", ">">>

\* Mutant of sanitizeContentForConfluence: text without tags is not wrapped
sanitizeContentForConfluenceNoWrap(content) ==
  IF content = NullContent \/ content = <<>> THEN NoContentProvided
  ELSE LET escaped == AllowSafeTags(EscapeAll(content), 1)
       IN IF Len(OpenTagsFiltered(escaped)) # Len(CloseTagNames(escaped, 1))
          THEN WrapInDiv(escaped)
          ELSE escaped

\* The try block when no call in it throws
sanitizeContentForConfluence(content) ==
  IF content = NullContent \/ content = <<>> THEN NoContentProvided
  ELSE LET escaped == AllowSafeTags(EscapeAll(content), 1)
           wrapped == IF "<" \notin Range(escaped) \/ ">" \notin Range(escaped)
                      THEN WrapInParagraph(escaped)
                      ELSE escaped
       IN IF Len(OpenTagsFiltered(wrapped)) # Len(CloseTagNames(wrapped, 1))
          THEN WrapInDiv(wrapped)
          ELSE wrapped

\* The catch block: "<p>Error processing content: ${error.message}</p>"
ErrorProcessingContent(message) ==
  <<"<", "p", ">", "Error processing content: ", message, "<", "/", "p", ">">>

\* The function when a call made inside the try block (the logger) may throw
\* an error with the given message; the first return comes before any call
sanitizeContentOutcome(content, throws, message) ==
  IF content = NullContent \/ content = <<>> THEN NoContentProvided
  ELSE IF throws THEN ErrorProcessingContent(message)
  ELSE sanitizeContentForConfluence(content)

\* ------------------------------------------------------------------------
\* State
\* ------------------------------------------------------------------------
VARIABLES
  remote,         \* the page held by the document service
  cs,             \* per caller of the ConfluenceService: position and locals
  externalEdits,  \* number of edits made by other users of the page
  rv,             \* the running invocation of reviewPR: position, locals, history
  batch,          \* reviewMultiplePRs: the input list, the loop index, the results
  mt,             \* the running invocation of processMeeting: position, locals, history
  mbatch,         \* processMultipleMeetings: the input list, the loop index, the results
  wh,             \* the webhook server: its reviewer, the request in hand, the response
  ws,             \* the web form server: its summarizer, the request in hand, the response
  nz,             \* a call of extractContentFromCustomResponse: argument and outcome
  sz,             \* calls of sanitizeContentForConfluence: argument and outcomes
  st,             \* a start of the process: entry point, settings, position
  lz              \* a server with requests in flight: its orchestrator, the handlers

vars == <<remote, cs, externalEdits, rv, batch, mt, mbatch, wh, ws, nz, sz, st, lz>>

extVars == <<wh, ws, nz, sz, st, lz>>

docVars == <<remote, cs, externalEdits>>

reviewVars == <<rv, batch>>

meetingVars == <<mt, mbatch>>

\* Callers of the document client: two direct users and the meeting pipeline.
Writers == {"w1", "w2"}

MeetingCaller == "m"

Callers == Writers \cup {MeetingCaller}

\* ------------------------------------------------------------------------
\* The remote document service (one page, optimistic versioning)
\* ------------------------------------------------------------------------
DesignBody == <<"<", "p", ">", "design", "<", "/", "p", ">">>

InitPages ==
  { [version |-> 1, title |-> "Design", status |-> "current", content |-> DesignBody],
    [version |-> 5, title |-> "Design", status |-> "draft", content |-> DesignBody] }

\* PUT /pages/{id}: a fault (a status other than 200) leaves the page as it
\* is; otherwise the write is accepted only with version.number = current + 1.
RemotePut(page, updateData, fault) ==
  IF fault # 200 THEN [status |-> fault, page |-> page]
  ELSE IF updateData.version = page.version + 1
       THEN [status |-> 200,
             page |-> [version |-> updateData.version, title |-> updateData.title,
                       status |-> updateData.status, content |-> updateData.body]]
       ELSE [status |-> 409, page |-> page]

\* ------------------------------------------------------------------------
\* ConfluenceService: getPageVersion, updatePageContent, appendToPage,
\* safeUpdatePageContent
\* ------------------------------------------------------------------------
NoPageInfo == [version |-> 0, title |-> "", status |-> "", content |-> <<>>]

NoUpdateData == [version |-> 0, title |-> "", status |-> "", body |-> <<>>]

NoResult == [success |-> FALSE, previousVersion |-> 0, newVersion |-> 0, appendedContent |-> <<>>]

NoRemoteSeen == [version |-> 0, content |-> <<>>]

RemoteSeen(page) == [version |-> page.version, content |-> page.content]

IdleCaller ==
  [pc |-> "idle", op |-> "none", url |-> <<>>, content |-> <<>>, sectionTitle |-> "",
   pageInfo |-> NoPageInfo, updateData |-> NoUpdateData, putStatus |-> -1,
   newSection |-> <<>>,          \* appendToPage: the section composed after the read
   newContent |-> <<>>,          \* the content handed to updatePageContent
   putData |-> NoData,           \* the data of the response to a failed PUT
   readSeen |-> NoRemoteSeen,    \* the remote page when the GET was answered
   remoteSeen |-> NoRemoteSeen,  \* the remote page when the PUT arrived
   result |-> NoResult, error |-> NoError,
   reads |-> 0, writes |-> 0,
   calls |-> 0]          \* invocations started by this caller so far

\* getPageVersion: the fields of the response with their defaults
getPageVersion(pageData) ==
  [version |-> IF pageData.version = 0 THEN 1 ELSE pageData.version,
   title |-> pageData.title,
   status |-> IF pageData.status = "" THEN "current" ELSE pageData.status,
   content |-> pageData.content]

Today == "11/3/2026"

\* appendToPage: the section appended after the existing content
NewSection(sectionTitle, timestamp, additionalContent) ==
  <<"\n", "<h2>", sectionTitle, " - ", timestamp, "</h2>", "\n">>
    \o sanitizeContentForConfluence(additionalContent)
    \o <<"\n", "<hr />", "\n">>

\* Mutant of NewContent: appendToPage writes the new section alone
NewContentOverwrite(c) ==
  IF c.op = "appendToPage"
  THEN NewSection(c.sectionTitle, Today, c.content)
  ELSE c.content

\* The newContent handed to updatePageContent by each write path
NewContent(c) ==
  IF c.op = "appendToPage"
  THEN c.pageInfo.content \o NewSection(c.sectionTitle, Today, c.content)
  ELSE c.content

\* Mutant of UpdateData: the write carries the version that was read
UpdateDataSameVersion(newContent, title, currentVersion, status) ==
  [version |-> currentVersion, title |-> title, status |-> status, body |-> newContent]

\* updatePageContent: the request body of the PUT
UpdateData(newContent, title, currentVersion, status) ==
  [version |-> currentVersion + 1, title |-> title, status |-> status, body |-> newContent]

\* error.response.data?.errors || error.response.data || 'Unknown validation
\* error', stringified (an empty array of errors is truthy)
ErrorDetails(data) ==
  IF data.kind = "object" /\ data.hasErrors THEN StringifyArray(data.errors)
  ELSE IF data.kind = "none" \/ (data.kind = "text" /\ data.text = "")
  THEN StringifyText("Unknown validation error")
  ELSE JsonStringify(data)

\* Mutant of BadRequestError: the message names the data member only
BadRequestErrorGeneric(data) ==
  [NewError("Bad request when updating Confluence page: ") EXCEPT
     !.details = IF data.kind = "none" THEN StringifyText("Unknown validation error")
                 ELSE JsonStringify([data EXCEPT !.errors = <<>>])]

\* The error thrown for status 400
BadRequestError(data) ==
  [NewError("Bad request when updating Confluence page: ") EXCEPT !.details = ErrorDetails(data)]

\* Mutant of updatePageContentError: 409 is not told apart
updatePageContentErrorNo409(status, data) ==
  IF status = 404 THEN NewError("Confluence page not found")
  ELSE IF status = 401 \/ status = 403 THEN NewError("Unauthorized to update Confluence page")
  ELSE IF status = 400 THEN BadRequestError(data)
  ELSE AxiosErrorWithData(status, data)

\* updatePageContent: the catch block, by status of the failed PUT
updatePageContentError(status, data) ==
  IF status = 404 THEN NewError("Confluence page not found")
  ELSE IF status = 401 \/ status = 403 THEN NewError("Unauthorized to update Confluence page")
  ELSE IF status = 409 THEN NewError("Confluence page has been modified by someone else")
  ELSE IF status = 400 THEN BadRequestError(data)
  ELSE AxiosErrorWithData(status, data)

\* Mutant of WriteResult: newVersion is the version that was read
WriteResultSameVersion(c) ==
  [success |-> TRUE,
   previousVersion |-> c.pageInfo.version,
   newVersion |-> c.pageInfo.version,
   appendedContent |-> c.newSection]

\* The value returned by appendToPage / safeUpdatePageContent
WriteResult(c) ==
  [success |-> TRUE,
   previousVersion |-> c.pageInfo.version,
   newVersion |-> c.pageInfo.version + 1,
   appendedContent |-> c.newSection]

\* Entry of appendToPage / safeUpdatePageContent: extractPageId, then the GET
\* of getPageVersion is issued; c is the caller's record before the call
WriteEntry(c, op, url, content, sectionTitle) ==
  IF extractPageId(url) = NoPageId
  THEN [IdleCaller EXCEPT !.pc = "threw", !.op = op, !.url = url, !.calls = c.calls + 1,
          !.error = NewError("Could not extract page ID from Confluence URL")]
  ELSE [IdleCaller EXCEPT !.pc = "getPageVersion", !.op = op, !.url = url,
          !.content = content, !.sectionTitle = sectionTitle, !.calls = c.calls + 1]

Settled(c) == c.pc \in {"idle", "returned", "threw"}

RECURSIVE SumCalls(_)
SumCalls(S) ==
  IF S = {} THEN 0
  ELSE LET w == CHOOSE x \in S : TRUE IN cs[w].calls + SumCalls(S \ {w})

\* A direct user calls appendToPage(confluenceUrl, additionalContent)
CallAppendToPage(w, url, content) ==
  /\ Settled(cs[w])
  /\ SumCalls(Writers) < MaxCalls
  /\ cs' = [cs EXCEPT ![w] = WriteEntry(@, "appendToPage", url, content, "Meeting Update")]
  /\ UNCHANGED <<remote, externalEdits, reviewVars, meetingVars, extVars>>

\* A direct user calls safeUpdatePageContent(confluenceUrl, newContent)
CallSafeUpdatePageContent(w, url, content) ==
  /\ Settled(cs[w])
  /\ SumCalls(Writers) < MaxCalls
  /\ cs' = [cs EXCEPT ![w] = WriteEntry(@, "safeUpdatePageContent", url, content, "")]
  /\ UNCHANGED <<remote, externalEdits, reviewVars, meetingVars, extVars>>

\* Mutant of Composed: appendToPage appends to the content its caller holds
\* (for the meeting pipeline, the page fetched at its start)
ComposedFromSnapshot(c) ==
  [c EXCEPT !.newSection = IF c.op = "appendToPage"
                           THEN NewSection(c.sectionTitle, Today, c.content)
                           ELSE <<>>,
            !.newContent = IF c.op = "appendToPage" /\ mt.pageGet.returned
                           THEN mt.pageGet.seen.content \o NewSection(c.sectionTitle, Today, c.content)
                           ELSE NewContent(c)]

\* Between the read and the write: appendToPage sanitizes the addition and
\* composes the section and the content; safeUpdatePageContent hands on its
\* argument
Composed(c) ==
  [c EXCEPT !.newSection = IF c.op = "appendToPage"
                           THEN NewSection(c.sectionTitle, Today, c.content)
                           ELSE <<>>,
            !.newContent = NewContent(c)]

\* The GET of getPageVersion is answered; on success the write is composed
\* and the PUT of updatePageContent is issued
GetPageVersionStep(w, fault) ==
  /\ cs[w].pc = "getPageVersion"
  /\ cs' = [cs EXCEPT ![w] =
       IF fault = 200
       THEN Composed([@ EXCEPT !.pc = "updatePageContent", !.reads = @ + 1,
                        !.pageInfo = getPageVersion(remote), !.readSeen = RemoteSeen(remote)])
       ELSE [@ EXCEPT !.pc = "threw", !.reads = @ + 1, !.error = AxiosError(fault)]]
  /\ UNCHANGED <<remote, externalEdits, reviewVars, meetingVars, extVars>>

\* Mutant of UpdatePageContentStep: a 409 is answered by reading the page
\* again and retrying
UpdatePageContentStepRetry(w, fault, data) ==
  /\ cs[w].pc = "updatePageContent"
  /\ LET c == cs[w]
         updateData == UpdateData(c.newContent, c.pageInfo.title, c.pageInfo.version, c.pageInfo.status)
         put == RemotePut(remote, updateData, fault)
     IN /\ remote' = put.page
        /\ cs' = [cs EXCEPT ![w] =
             IF put.status = 200
             THEN [@ EXCEPT !.pc = "returned", !.writes = @ + 1, !.updateData = updateData,
                     !.putStatus = put.status,
                     !.remoteSeen = RemoteSeen(remote),
                     !.result = WriteResult(c)]
             ELSE IF put.status = 409 /\ c.writes = 0
             THEN [@ EXCEPT !.pc = "getPageVersion", !.writes = @ + 1, !.updateData = updateData,
                     !.putStatus = put.status,
                     !.remoteSeen = RemoteSeen(remote)]
             ELSE [@ EXCEPT !.pc = "threw", !.writes = @ + 1, !.updateData = updateData,
                     !.putStatus = put.status,
                     !.remoteSeen = RemoteSeen(remote),
                     !.putData = data,
                     !.error = updatePageContentError(put.status, data)]]
  /\ UNCHANGED <<externalEdits, reviewVars, meetingVars, extVars>>

\* Mutant of UpdatePageContentStep: a write refused with 409 is sent again at
\* once with the version the remote has now
UpdatePageContentStepForce(w, fault, data) ==
  /\ cs[w].pc = "updatePageContent"
  /\ LET c == cs[w]
         updateData == UpdateData(c.newContent, c.pageInfo.title, c.pageInfo.version, c.pageInfo.status)
         first == RemotePut(remote, updateData, fault)
         put == IF first.status = 409
                THEN RemotePut(remote, [updateData EXCEPT !.version = remote.version + 1], fault)
                ELSE first
     IN /\ remote' = put.page
        /\ cs' = [cs EXCEPT ![w] =
             IF put.status = 200
             THEN [@ EXCEPT !.pc = "returned", !.writes = @ + 1, !.updateData = updateData,
                     !.putStatus = put.status,
                     !.remoteSeen = RemoteSeen(remote),
                     !.result = WriteResult(c)]
             ELSE [@ EXCEPT !.pc = "threw", !.writes = @ + 1, !.updateData = updateData,
                     !.putStatus = put.status,
                     !.remoteSeen = RemoteSeen(remote),
                     !.putData = data,
                     !.error = updatePageContentError(put.status, data)]]
  /\ UNCHANGED <<externalEdits, reviewVars, meetingVars, extVars>>

\* The PUT of updatePageContent is handled by the remote and answered
UpdatePageContentStep(w, fault, data) ==
  /\ cs[w].pc = "updatePageContent"
  /\ LET c == cs[w]
         updateData == UpdateData(c.newContent, c.pageInfo.title, c.pageInfo.version, c.pageInfo.status)
         put == RemotePut(remote, updateData, fault)
     IN /\ remote' = put.page
        /\ cs' = [cs EXCEPT ![w] =
             IF put.status = 200
             THEN [@ EXCEPT !.pc = "returned", !.writes = @ + 1, !.updateData = updateData,
                     !.putStatus = put.status,
                     !.remoteSeen = RemoteSeen(remote),
                     !.result = WriteResult(c)]
             ELSE [@ EXCEPT !.pc = "threw", !.writes = @ + 1, !.updateData = updateData,
                     !.putStatus = put.status,
                     !.remoteSeen = RemoteSeen(remote),
                     !.putData = data,
                     !.error = updatePageContentError(put.status, data)]]
  /\ UNCHANGED <<externalEdits, reviewVars, meetingVars, extVars>>

\* ------------------------------------------------------------------------
\* GitHubService.extractConfluenceUrl
\* A PR description is a sequence of tokens: key words, ":", whitespace
\* (" ", "\n"), URLs and other words.  NullBody is a PR without description.
\* ------------------------------------------------------------------------
NullBody == <<"null">>

Whitespace == {" ", "\n"}

UrlTable ==
  [x \in {"https://x/wiki/spaces/S/pages/123456/Title", "https://x/wiki/Title"} |->
     IF x = "https://x/wiki/spaces/S/pages/123456/Title" THEN UrlPages ELSE UrlNoId]

\* The tokens short descriptions are built from
DescTokens == {"confluence_design_document_url", "Confluence Design Document URL",
               "confluence_url", ":", " ", "fixes",
               "https://x/wiki/spaces/S/pages/123456/Title"}

IsWhitespace(tok) == tok \in Whitespace

\* The four patterns, in the order of the code, as the key words each matches:
\*   1 /confluence_design_document_url[:\s]*([^\s\n]+)/i
\*   2 /confluence[_\s]*design[_\s]*document[_\s]*url[:\s]*([^\s\n]+)/i
\*   3 /design[_\s]*document[_\s]*url[:\s]*([^\s\n]+)/i
\*   4 /confluence[_\s]*url[:\s]*([^\s\n]+)/i
KeyMatches(pattern, tok) ==
  CASE pattern = 1 -> tok = "confluence_design_document_url"
    [] pattern = 2 -> tok \in {"confluence_design_document_url", "Confluence Design Document URL"}
    [] pattern = 3 -> tok \in {"confluence_design_document_url", "Confluence Design Document URL"}
    [] pattern = 4 -> tok = "confluence_url"
    [] OTHER -> FALSE

\* End of the longest run of tokens of set S that starts at i (i - 1 if none)
RECURSIVE RunEnd(_, _, _)
RunEnd(s, i, S) ==
  IF i <= Len(s) /\ s[i] \in S THEN RunEnd(s, i + 1, S) ELSE i - 1

\* After the key at i: [:\s]* is greedy and gives back until ([^\s\n]+) can
\* match; the result is the start of the captured group, or 0.
CaptureStart(desc, i) ==
  LET sepEnd == RunEnd(desc, i + 1, Whitespace \cup {":"})
      starts == {j \in (i + 1)..(sepEnd + 1) : j <= Len(desc) /\ desc[j] \notin Whitespace}
  IN IF starts = {} THEN 0 ELSE Max(starts)

\* Positions of the key tokens at which the pattern matches
PatternMatches(desc, pattern) ==
  {i \in 1..Len(desc) : KeyMatches(pattern, desc[i]) /\ CaptureStart(desc, i) > 0}

\* match[1] of the leftmost match of the pattern
Capture(desc, pattern) ==
  LET i == Min(PatternMatches(desc, pattern))
      from == CaptureStart(desc, i)
  IN SubSeq(desc, from, RunEnd(desc, from, Range(desc) \ Whitespace))

NullUrl == <<>>

RECURSIVE FirstCapture(_, _)
FirstCapture(desc, pattern) ==
  IF pattern > 4 THEN NullUrl
  ELSE IF PatternMatches(desc, pattern) # {} THEN Capture(desc, pattern)
  ELSE FirstCapture(desc, pattern + 1)

extractConfluenceUrl(prDescription) == FirstCapture(prDescription, 1)

\* The URL string as the "/"-separated segments extractPageId works on
UrlSegments(url) ==
  IF Len(url) = 1 /\ url[1] \in DOMAIN UrlTable THEN UrlTable[url[1]]
  ELSE << <<"txt", "other">> >>

\* ------------------------------------------------------------------------
\* PRReviewer.reviewPR and PRReviewer.reviewMultiplePRs
\* ------------------------------------------------------------------------
PrNumbers == {101, 102}

MissingDesignDocumentMessage == "No confluence design document URL found in PR description"

ReviewCompletedMessage == "PR review completed and comment posted successfully"

NoReviewResult == [success |-> FALSE, prNumber |-> 0, message |-> "", designDocUrl |-> NullUrl, error |-> ""]

\* What analyzeChanges or analyzeMeetingContent has done in a call: the
\* requests it sent to the model service and the status of the last answer
\* (-1 while there is none)
NoModelCall == [requests |-> 0, status |-> -1]

IdleReview ==
  [pc |-> "idle", prNumber |-> 0, body |-> NullBody, confluenceUrl |-> NullUrl,
   modelCall |-> NoModelCall,  \* step 4, the analyzeChanges call
   error |-> NoError,    \* the error caught by the catch block
   thrown |-> NoError,   \* the error thrown to the caller
   result |-> NoReviewResult,
   events |-> <<>>,      \* the calls made so far, each with its outcome
   comments |-> <<>>]    \* the comments posted successfully on the PR

IdleBatch == [pc |-> "idle", prNumbers |-> <<>>, i |-> 0, results |-> <<>>]

Event(call, outcome) == <<call, outcome>>

\* The catch block of reviewPR is entered with the error of the failed step:
\* the error notice is posted next
ReviewCatch(r, call, err) ==
  [r EXCEPT !.pc = "postErrorComment", !.error = err,
            !.events = Append(@, Event(call, "fail"))]

\* getPullRequestDetails: the catch block, by status of the failed GET
getPullRequestDetailsError(status) ==
  IF status = 404 THEN NewError("PR not found") ELSE AxiosError(status)

\* getPageContent: the catch block, by status of the failed GET
getPageContentError(status) ==
  IF status = 404 THEN NewError("Confluence page not found")
  ELSE IF status = 401 \/ status = 403 THEN NewError("Unauthorized to access Confluence page")
  ELSE AxiosError(status)

\* reviewPR is entered: the GET of the PR details is issued
ReviewPREntry(prNumber) ==
  [IdleReview EXCEPT !.pc = "getPullRequestDetails", !.prNumber = prNumber]

\* main(): a single reviewPR
StartReviewPR(prNumber) ==
  /\ rv.pc = "idle"
  /\ batch.pc = "idle"
  /\ mbatch.pc = "idle"
  /\ rv' = ReviewPREntry(prNumber)
  /\ batch' = [batch EXCEPT !.pc = "single"]
  /\ UNCHANGED <<docVars, meetingVars, extVars>>

\* Step 1a: GET of the PR is answered; on success the GET of the diff is issued.
\* hasPr is false when the response carries no PR object.
GetPullRequestDetailsStep(fault, hasPr, body) ==
  /\ rv.pc = "getPullRequestDetails"
  /\ rv' = IF fault = 200
           THEN [rv EXCEPT !.pc = "getPullRequestDiff",
                           !.body = IF hasPr THEN body ELSE <<"no pr">>]
           ELSE ReviewCatch(rv, "getPullRequestDetails", getPullRequestDetailsError(fault))
  /\ UNCHANGED <<batch, docVars, meetingVars, extVars>>

\* After a successful step 1: "if (!prData.pr) throw", then step 2, the
\* extraction, and the call that follows it
AfterPullRequestDetails(r) ==
  IF r.body = <<"no pr">>
  THEN ReviewCatch(r, "getPullRequestDetails", NewError("Could not fetch PR"))
  ELSE LET fetched == [r EXCEPT !.events = Append(@, Event("getPullRequestDetails", "ok"))]
           prDescription == IF r.body = NullBody THEN <<>> ELSE r.body
           confluenceUrl == extractConfluenceUrl(prDescription)
       IN IF confluenceUrl = NullUrl
          THEN [fetched EXCEPT !.pc = "postMissingComment",
                               !.events = Append(@, Event("extractConfluenceUrl", "null"))]
          ELSE LET extracted == [fetched EXCEPT !.confluenceUrl = confluenceUrl,
                                   !.events = Append(@, Event("extractConfluenceUrl", "url"))]
               IN IF extractPageId(UrlSegments(confluenceUrl)) = NoPageId
                  THEN ReviewCatch(extracted, "getPageContent",
                                   NewError("Could not extract page ID from Confluence URL"))
                  ELSE [extracted EXCEPT !.pc = "getPageContent"]

\* Step 1b: GET of the diff is answered
GetPullRequestDiffStep(fault) ==
  /\ rv.pc = "getPullRequestDiff"
  /\ rv' = IF fault = 200
           THEN AfterPullRequestDetails(rv)
           ELSE ReviewCatch(rv, "getPullRequestDetails", getPullRequestDetailsError(fault))
  /\ UNCHANGED <<batch, docVars, meetingVars, extVars>>

\* Mutant of PostMissingCommentStep: a failed notice is ignored
PostMissingCommentStepSwallow(fault) ==
  /\ rv.pc = "postMissingComment"
  /\ rv' = [rv EXCEPT !.pc = "returned",
                      !.events = Append(@, Event("addPullRequestComment.missing",
                                                 IF fault = 200 THEN "ok" ELSE "fail")),
                      !.comments = IF fault = 200 THEN Append(@, "missing") ELSE @,
                      !.result = [NoReviewResult EXCEPT !.success = FALSE,
                                    !.message = MissingDesignDocumentMessage,
                                    !.prNumber = rv.prNumber]]
  /\ UNCHANGED <<batch, docVars, meetingVars, extVars>>

\* The "missing design document" comment is answered
PostMissingCommentStep(fault) ==
  /\ rv.pc = "postMissingComment"
  /\ rv' = IF fault = 200
           THEN [rv EXCEPT !.pc = "returned",
                           !.events = Append(@, Event("addPullRequestComment.missing", "ok")),
                           !.comments = Append(@, "missing"),
                           !.result = [NoReviewResult EXCEPT !.success = FALSE,
                                         !.message = MissingDesignDocumentMessage,
                                         !.prNumber = rv.prNumber]]
           ELSE ReviewCatch(rv, "addPullRequestComment.missing", AxiosError(fault))
  /\ UNCHANGED <<batch, docVars, meetingVars, extVars>>

\* Step 3: GET of the design document is answered; hasContent is false when
\* the response carries no page data
GetPageContentStep(fault, hasContent) ==
  /\ rv.pc = "getPageContent"
  /\ rv' = IF fault # 200
           THEN ReviewCatch(rv, "getPageContent", getPageContentError(fault))
           ELSE IF ~hasContent
           THEN ReviewCatch(rv, "getPageContent",
                            NewError("Could not fetch design document content from Confluence"))
           ELSE [rv EXCEPT !.pc = "analyzeChanges", !.modelCall.requests = 1,
                           !.events = Append(@, Event("getPageContent", "ok"))]
  /\ UNCHANGED <<batch, docVars, meetingVars, extVars>>

\* Mutant of AnalyzeChangesStep: the review goes on after a failed model call
AnalyzeChangesStepIgnoreFailure(fault, hasText) ==
  /\ rv.pc = "analyzeChanges"
  /\ rv' = [rv EXCEPT !.pc = "postReviewComment",
                      !.events = Append(@, Event("analyzeChanges",
                                     IF fault = 200 /\ hasText THEN "ok" ELSE "fail"))]
  /\ UNCHANGED <<batch, docVars, meetingVars, extVars>>

\* Mutant of AnalyzeChangesStep: a failed model request is sent once more
AnalyzeChangesStepRetry(fault, hasText) ==
  /\ rv.pc = "analyzeChanges"
  /\ rv' = LET answered == [rv EXCEPT !.modelCall.status = fault]
           IN IF fault # 200 /\ rv.modelCall.requests < 2
              THEN [answered EXCEPT !.modelCall.requests = @ + 1]
              ELSE IF fault # 200
              THEN ReviewCatch(answered, "analyzeChanges", AxiosError(fault))
              ELSE IF ~hasText
              THEN ReviewCatch(answered, "analyzeChanges", NewError("TypeError"))
              ELSE [answered EXCEPT !.pc = "postReviewComment",
                                    !.events = Append(@, Event("analyzeChanges", "ok"))]
  /\ UNCHANGED <<batch, docVars, meetingVars, extVars>>

\* Step 4: the model request is answered; hasText is false when the response
\* carries no message content (analysis.substring then throws)
AnalyzeChangesStep(fault, hasText) ==
  /\ rv.pc = "analyzeChanges"
  /\ rv' = LET answered == [rv EXCEPT !.modelCall.status = fault]
           IN IF fault # 200
              THEN ReviewCatch(answered, "analyzeChanges", AxiosError(fault))
              ELSE IF ~hasText
              THEN ReviewCatch(answered, "analyzeChanges", NewError("TypeError"))
              ELSE [answered EXCEPT !.pc = "postReviewComment",
                                    !.events = Append(@, Event("analyzeChanges", "ok"))]
  /\ UNCHANGED <<batch, docVars, meetingVars, extVars>>

\* Mutant of PostReviewCommentStep: a statement after the accepted post throws
PostReviewCommentStepThrowsAfter(fault) ==
  /\ rv.pc = "postReviewComment"
  /\ rv' = IF fault = 200
           THEN ReviewCatch([rv EXCEPT !.comments = Append(@, "review"),
                               !.events = Append(@, Event("addPullRequestComment.review", "ok"))],
                            "result", NewError("result"))
           ELSE ReviewCatch(rv, "addPullRequestComment.review", AxiosError(fault))
  /\ UNCHANGED <<batch, docVars, meetingVars, extVars>>

\* Step 5: the review comment is answered
PostReviewCommentStep(fault) ==
  /\ rv.pc = "postReviewComment"
  /\ rv' = IF fault = 200
           THEN [rv EXCEPT !.pc = "returned",
                           !.events = Append(@, Event("addPullRequestComment.review", "ok")),
                           !.comments = Append(@, "review"),
                           !.result = [NoReviewResult EXCEPT !.success = TRUE,
                                         !.prNumber = rv.prNumber,
                                         !.designDocUrl = rv.confluenceUrl,
                                         !.message = ReviewCompletedMessage]]
           ELSE ReviewCatch(rv, "addPullRequestComment.review", AxiosError(fault))
  /\ UNCHANGED <<batch, docVars, meetingVars, extVars>>

\* Mutant of PostErrorCommentStep: the error of a failed notice is the one thrown
PostErrorCommentStepThrowsCommentError(fault) ==
  /\ rv.pc = "postErrorComment"
  /\ rv' = [rv EXCEPT !.pc = "threw",
                      !.thrown = IF fault = 200 THEN rv.error ELSE AxiosError(fault),
                      !.events = Append(@, Event("addPullRequestComment.error",
                                                 IF fault = 200 THEN "ok" ELSE "fail")),
                      !.comments = IF fault = 200 THEN Append(@, "error") ELSE @]
  /\ UNCHANGED <<batch, docVars, meetingVars, extVars>>

\* catch: the error notice is answered; its failure is logged and dropped,
\* then the error that entered the catch block is rethrown
PostErrorCommentStep(fault) ==
  /\ rv.pc = "postErrorComment"
  /\ rv' = [rv EXCEPT !.pc = "threw", !.thrown = rv.error,
                      !.events = Append(@, Event("addPullRequestComment.error",
                                                 IF fault = 200 THEN "ok" ELSE "fail")),
                      !.comments = IF fault = 200 THEN Append(@, "error") ELSE @]
  /\ UNCHANGED <<batch, docVars, meetingVars, extVars>>

\* reviewMultiplePRs is called with a list of PR numbers
StartReviewMultiplePRs(prNumbers) ==
  /\ batch.pc = "idle"
  /\ rv.pc = "idle"
  /\ mbatch.pc = "idle"
  /\ batch' = [pc |-> "loop", prNumbers |-> prNumbers, i |-> 0, results |-> <<>>]
  /\ UNCHANGED <<rv, docVars, meetingVars, extVars>>

\* for (const prNumber of prNumbers): the next iteration calls reviewPR, or
\* the loop ends and the results are returned
ReviewLoopNext ==
  /\ batch.pc = "loop"
  /\ IF batch.i < Len(batch.prNumbers)
     THEN /\ batch' = [batch EXCEPT !.pc = "await", !.i = @ + 1]
          /\ rv' = ReviewPREntry(batch.prNumbers[batch.i + 1])
     ELSE /\ batch' = [batch EXCEPT !.pc = "returned"]
          /\ UNCHANGED rv
  /\ UNCHANGED <<docVars, meetingVars, extVars>>

\* Mutant of ReviewLoopPush: no try/catch around the item, its error ends the batch
ReviewLoopPushRethrow ==
  /\ batch.pc = "await"
  /\ rv.pc \in {"returned", "threw"}
  /\ batch' = IF rv.pc = "returned"
              THEN [batch EXCEPT !.pc = "loop", !.results = Append(@, rv.result)]
              ELSE [batch EXCEPT !.pc = "threw"]
  /\ rv' = IdleReview
  /\ UNCHANGED <<docVars, meetingVars, extVars>>

\* Mutant of ReviewLoopPush: an item whose review threw is reviewed again
ReviewLoopPushRetryFailed ==
  /\ batch.pc = "await"
  /\ rv.pc \in {"returned", "threw"}
  /\ batch' = IF rv.pc = "returned"
              THEN [batch EXCEPT !.pc = "loop", !.results = Append(@, rv.result)]
              ELSE [batch EXCEPT !.pc = "loop", !.i = @ - 1]
  /\ rv' = IdleReview
  /\ UNCHANGED <<docVars, meetingVars, extVars>>

\* await this.reviewPR(prNumber) settles: the result, or the entry built in
\* the catch block, is pushed
ReviewLoopPush ==
  /\ batch.pc = "await"
  /\ rv.pc \in {"returned", "threw"}
  /\ batch' = [batch EXCEPT !.pc = "loop",
                 !.results = Append(@,
                    IF rv.pc = "returned" THEN rv.result
                    ELSE [NoReviewResult EXCEPT !.success = FALSE,
                            !.prNumber = batch.prNumbers[batch.i],
                            !.error = rv.thrown.msg])]
  /\ rv' = IdleReview
  /\ UNCHANGED <<docVars, meetingVars, extVars>>

\* ------------------------------------------------------------------------
\* LLMService.parseMeetingAnalysis and extractUpdatedContentFromText
\* The text of a model response is a sequence of tokens: "{", "}", JSON
\* members (one token per "key":value), prose phrases and HTML fragments.
\* NullText is a response without message content.
\* ------------------------------------------------------------------------
NullText == <<"null">>

ShouldUpdateMember == "\"shouldUpdate\":true"

UpdatedContentMember == "\"updatedContent\":\"<p>new</p>\""

SummaryMember == "\"summary\":\"recap\""

JsonMembers == {ShouldUpdateMember, UpdatedContentMember, SummaryMember}

HtmlFragment == "<p>new</p>"

HtmlTokens == <<"<", "p", ">", "new", "<", "/", "p", ">">>

UpdatePhrases == {"needs update", "Should Update"}

UpdatedContentLabel == "Updated Content:"

ParagraphBreak == "\n\n"

TextTokens == {"{", "}", ShouldUpdateMember, UpdatedContentMember, "needs update",
               HtmlFragment, "word"}

\* The characters of one token of the text, as content tokens
TokenContent(tok) ==
  IF tok = HtmlFragment THEN HtmlTokens
  ELSE IF tok = UpdatedContentMember THEN <<"\"updatedContent\":\"">> \o HtmlTokens \o <<"\"">>
  ELSE <<tok>>

RECURSIVE TextContent(_)
TextContent(text) ==
  IF text = <<>> THEN <<>> ELSE TokenContent(Head(text)) \o TextContent(Tail(text))

\* analysisText.match(/\{[\s\S]*\}/): from the first "{" to the last "}"
JsonMatch(text) ==
  LET opens == {i \in 1..Len(text) : text[i] = "{"}
      closes == {i \in 1..Len(text) : text[i] = "}"}
  IN IF opens # {} /\ closes # {} /\ Min(opens) < Max(closes)
     THEN SubSeq(text, Min(opens), Max(closes))
     ELSE <<>>

\* JSON.parse accepts the block when only members stand between its braces
JsonParses(block) ==
  /\ Len(block) >= 2
  /\ \A i \in 2..(Len(block) - 1) : block[i] \in JsonMembers

\* Index of the ">" that ends a match of /<[^>]+>/ starting at i, or 0
AnyTagEnd(s, i) ==
  IF s[i] # "<" THEN 0
  ELSE LET gts == {j \in (i+1)..Len(s) : s[j] = ">"}
       IN IF gts # {} /\ Min(gts) >= i + 2 THEN Min(gts) ELSE 0

\* Index of the ">" that ends a match of /<\/[^>]+>/ starting at i, or 0
AnyCloseTagEnd(s, i) ==
  IF s[i] # "<" \/ i + 1 > Len(s) \/ s[i+1] # "/" THEN 0
  ELSE LET gts == {j \in (i+2)..Len(s) : s[j] = ">"}
       IN IF gts # {} /\ Min(gts) >= i + 3 THEN Min(gts) ELSE 0

\* text.match(/<[^>]+>[\s\S]*<\/[^>]+>/)
HtmlMatch(s) ==
  LET starts == {i \in 1..Len(s) :
                   /\ AnyTagEnd(s, i) > 0
                   /\ \E k \in (AnyTagEnd(s, i) + 1)..Len(s) : AnyCloseTagEnd(s, k) > 0}
  IN IF starts = {} THEN <<>>
     ELSE LET i == Min(starts)
              k == Max({j \in (AnyTagEnd(s, i) + 1)..Len(s) : AnyCloseTagEnd(s, j) > 0})
          IN SubSeq(s, i, AnyCloseTagEnd(s, k))

\* text.match(/updated content[:\s]+([\s\S]*?)(?=\n\n|\n#|$)/i), wrapped in <p>
LabelledContent(text) ==
  LET labels == {i \in 1..Len(text) : text[i] = UpdatedContentLabel}
  IN IF labels = {} THEN <<>>
     ELSE LET i == Min(labels)
              breaks == {j \in (i+1)..Len(text) : text[j] = ParagraphBreak}
              last == IF breaks = {} THEN Len(text) ELSE Min(breaks) - 1
          IN WrapInParagraph(TextContent(SubSeq(text, i + 1, last)))

extractUpdatedContentFromText(text) ==
  IF HtmlMatch(TextContent(text)) # <<>> THEN HtmlMatch(TextContent(text))
  ELSE LabelledContent(text)

FallbackSummary == "Meeting was analyzed but could not extract structured summary"

ParsingErrorSummary == "Error parsing meeting analysis"

\* Mutant of parseMeetingAnalysis: the text is not lower-cased before the
\* search for the phrases
parseMeetingAnalysisCaseSensitive(analysisText) ==
  IF analysisText = NullText
  THEN [summary |-> ParsingErrorSummary, shouldUpdate |-> FALSE, updatedContent |-> <<>>,
        reasoning |-> "Parsing error occurred"]
  ELSE IF JsonMatch(analysisText) # <<>> /\ JsonParses(JsonMatch(analysisText))
  THEN LET members == Range(JsonMatch(analysisText))
       IN [summary |-> IF SummaryMember \in members THEN "recap" ELSE "No summary provided",
           shouldUpdate |-> ShouldUpdateMember \in members,
           updatedContent |-> IF UpdatedContentMember \in members THEN HtmlTokens ELSE <<>>,
           reasoning |-> "No reasoning provided"]
  ELSE [summary |-> FallbackSummary,
        shouldUpdate |-> "needs update" \in Range(analysisText),
        updatedContent |-> extractUpdatedContentFromText(analysisText),
        reasoning |-> "Text-based analysis"]

parseMeetingAnalysis(analysisText) ==
  IF analysisText = NullText
  THEN [summary |-> ParsingErrorSummary, shouldUpdate |-> FALSE, updatedContent |-> <<>>,
        reasoning |-> "Parsing error occurred"]
  ELSE IF JsonMatch(analysisText) # <<>> /\ JsonParses(JsonMatch(analysisText))
  THEN LET members == Range(JsonMatch(analysisText))
       IN [summary |-> IF SummaryMember \in members THEN "recap" ELSE "No summary provided",
           shouldUpdate |-> ShouldUpdateMember \in members,
           updatedContent |-> IF UpdatedContentMember \in members THEN HtmlTokens ELSE <<>>,
           reasoning |-> "No reasoning provided"]
  ELSE [summary |-> FallbackSummary,
        shouldUpdate |-> Range(analysisText) \cap UpdatePhrases # {},
        updatedContent |-> extractUpdatedContentFromText(analysisText),
        reasoning |-> "Text-based analysis"]

\* ------------------------------------------------------------------------
\* MeetingSummarizer.processMeeting and processMultipleMeetings
\* ------------------------------------------------------------------------
NoAnalysis == [summary |-> "", shouldUpdate |-> FALSE, updatedContent |-> <<>>, reasoning |-> ""]

NoMeetingResult == [success |-> FALSE, summary |-> "", updatedContent |-> FALSE,
                    updateDetails |-> NoResult, error |-> "", confluenceUrl |-> <<>>]

\* What getPageContent has done in a call: the GETs it issued, the status of
\* the answer (-1 while there is none) and whether it returned a page object
\* seen: the remote page when the GET was answered
NoPageGet == [requests |-> 0, status |-> -1, returned |-> FALSE, seen |-> NoRemoteSeen]

IdleMeeting ==
  [pc |-> "idle", confluenceUrl |-> <<>>, analysisText |-> <<>>,
   analysisResult |-> NoAnalysis, result |-> NoMeetingResult, error |-> NoError,
   pageGet |-> NoPageGet,  \* step 1, the getPageContent call
   modelCall |-> NoModelCall,  \* step 2, the analyzeMeetingContent call
   fetched |-> FALSE,    \* getPageContent returned a page
   analysed |-> FALSE,   \* analyzeMeetingContent returned an analysis
   appended |-> FALSE,   \* appendToPage returned
   append |-> IdleCaller]  \* the appendToPage call as it settled

IdleMeetingBatch == [pc |-> "idle", meetings |-> <<>>, i |-> 0, results |-> <<>>]

\* Model responses the pipeline is run on: every short text and some longer ones
SampleTexts ==
  { <<"{", ShouldUpdateMember, UpdatedContentMember, "}">>,
    <<"word", "{", SummaryMember, ShouldUpdateMember, UpdatedContentMember, "}", "word">>,
    <<"{", ShouldUpdateMember, "}">>,
    <<"{", "word", UpdatedContentMember, "}", "needs update">>,
    <<"Should Update", UpdatedContentLabel, "word", ParagraphBreak, "word">>,
    <<"needs update", UpdatedContentLabel>>,
    <<"needs update", "word", "}", "{">> }

Texts == SeqsUpTo(TextTokens, MaxTextLen) \cup SampleTexts

\* Mutant of ProcessMeetingEntry: the GET is issued whatever the URL is
ProcessMeetingEntryAlwaysGet(confluenceUrl) ==
  [IdleMeeting EXCEPT !.pc = "getPageContent", !.confluenceUrl = confluenceUrl,
                      !.pageGet.requests = 1]

\* processMeeting is entered: getPageContent extracts the page ID and issues
\* the GET, or throws
ProcessMeetingEntry(confluenceUrl) ==
  IF extractPageId(confluenceUrl) = NoPageId
  THEN [IdleMeeting EXCEPT !.pc = "threw", !.confluenceUrl = confluenceUrl,
          !.error = NewError("Could not extract page ID from Confluence URL")]
  ELSE [IdleMeeting EXCEPT !.pc = "getPageContent", !.confluenceUrl = confluenceUrl,
                           !.pageGet.requests = 1]

StartProcessMeeting(confluenceUrl) ==
  /\ mt.pc = "idle"
  /\ mbatch.pc = "idle"
  /\ batch.pc = "idle"
  /\ mt' = ProcessMeetingEntry(confluenceUrl)
  /\ mbatch' = [mbatch EXCEPT !.pc = "single"]
  /\ UNCHANGED <<docVars, reviewVars, extVars>>

\* Step 1: GET of the design document is answered
MeetingGetPageContentStep(fault, hasContent) ==
  /\ mt.pc = "getPageContent"
  /\ mt' = LET answered == [mt EXCEPT !.pageGet.status = fault,
                                        !.pageGet.returned = (fault = 200),
                                        !.pageGet.seen = IF fault = 200 THEN RemoteSeen(remote)
                                                         ELSE NoRemoteSeen]
           IN IF fault # 200
              THEN [answered EXCEPT !.pc = "threw", !.error = getPageContentError(fault)]
              ELSE IF ~hasContent
              THEN [answered EXCEPT !.pc = "threw",
                      !.error = NewError("Could not fetch design document content from Confluence")]
              ELSE [answered EXCEPT !.pc = "analyzeMeetingContent", !.fetched = TRUE,
                                    !.modelCall.requests = 1]
  /\ UNCHANGED <<docVars, reviewVars, mbatch, extVars>>

\* Mutant of AnalyzeMeetingContentStep: step 3 does not look at updatedContent
AnalyzeMeetingContentStepNoContentCheck(fault, text) ==
  /\ mt.pc = "analyzeMeetingContent"
  /\ cs[MeetingCaller].pc = "idle"
  /\ IF fault # 200
     THEN /\ mt' = [mt EXCEPT !.pc = "threw", !.error = AxiosError(fault)]
          /\ UNCHANGED docVars
     ELSE LET analysisResult == parseMeetingAnalysis(text)
              analysed == [mt EXCEPT !.analysisText = text, !.analysisResult = analysisResult,
                                     !.analysed = TRUE]
          IN IF analysisResult.shouldUpdate
             THEN /\ mt' = [analysed EXCEPT !.pc = "appendToPage"]
                  /\ cs' = [cs EXCEPT ![MeetingCaller] =
                              WriteEntry(@, "appendToPage", mt.confluenceUrl,
                                         analysisResult.updatedContent,
                                         "Meeting Discussion Update")]
                  /\ UNCHANGED <<remote, externalEdits>>
             ELSE /\ mt' = [analysed EXCEPT !.pc = "returned",
                              !.result = [NoMeetingResult EXCEPT !.success = TRUE,
                                            !.summary = analysisResult.summary,
                                            !.updatedContent = FALSE,
                                            !.confluenceUrl = mt.confluenceUrl]]
                  /\ UNCHANGED docVars
  /\ UNCHANGED <<reviewVars, mbatch, extVars>>

\* Step 2: the model request is answered and parsed; step 3 calls
\* appendToPage when the analysis asks for an update
AnalyzeMeetingContentStep(fault, text) ==
  /\ mt.pc = "analyzeMeetingContent"
  /\ cs[MeetingCaller].pc = "idle"
  /\ IF fault # 200
     THEN /\ mt' = [mt EXCEPT !.pc = "threw", !.error = AxiosError(fault),
                             !.modelCall.status = fault]
          /\ UNCHANGED docVars
     ELSE LET analysisResult == parseMeetingAnalysis(text)
              analysed == [mt EXCEPT !.analysisText = text, !.analysisResult = analysisResult,
                                     !.analysed = TRUE, !.modelCall.status = fault]
          IN IF analysisResult.shouldUpdate /\ analysisResult.updatedContent # <<>>
             THEN /\ mt' = [analysed EXCEPT !.pc = "appendToPage"]
                  /\ cs' = [cs EXCEPT ![MeetingCaller] =
                              WriteEntry(@, "appendToPage", mt.confluenceUrl,
                                         analysisResult.updatedContent,
                                         "Meeting Discussion Update")]
                  /\ UNCHANGED <<remote, externalEdits>>
             ELSE /\ mt' = [analysed EXCEPT !.pc = "returned",
                              !.result = [NoMeetingResult EXCEPT !.success = TRUE,
                                            !.summary = analysisResult.summary,
                                            !.updatedContent = FALSE,
                                            !.confluenceUrl = mt.confluenceUrl]]
                  /\ UNCHANGED docVars
  /\ UNCHANGED <<reviewVars, mbatch, extVars>>

\* await appendToPage settles: step 4 returns the result, or the error is rethrown
MeetingAppendSettled ==
  /\ mt.pc = "appendToPage"
  /\ cs[MeetingCaller].pc \in {"returned", "threw"}
  /\ mt' = IF cs[MeetingCaller].pc = "returned"
           THEN [mt EXCEPT !.pc = "returned", !.appended = TRUE, !.append = cs[MeetingCaller],
                   !.result = [NoMeetingResult EXCEPT !.success = TRUE,
                                 !.summary = mt.analysisResult.summary,
                                 !.updatedContent = TRUE,
                                 !.confluenceUrl = mt.confluenceUrl,
                                 !.updateDetails = cs[MeetingCaller].result]]
           ELSE [mt EXCEPT !.pc = "threw", !.append = cs[MeetingCaller],
                   !.error = cs[MeetingCaller].error]
  /\ cs' = [cs EXCEPT ![MeetingCaller] = IdleCaller]
  /\ UNCHANGED <<remote, externalEdits, reviewVars, mbatch, extVars>>

\* processMultipleMeetings is called with a list of meetings
StartProcessMultipleMeetings(meetings) ==
  /\ mbatch.pc = "idle"
  /\ mt.pc = "idle"
  /\ batch.pc = "idle"
  /\ mbatch' = [pc |-> "loop", meetings |-> meetings, i |-> 0, results |-> <<>>]
  /\ UNCHANGED <<docVars, reviewVars, mt, extVars>>

\* for (const meetingData of meetingDataArray): the next iteration calls
\* processMeeting, or the loop ends and the results are returned
MeetingLoopNext ==
  /\ mbatch.pc = "loop"
  /\ IF mbatch.i < Len(mbatch.meetings)
     THEN /\ mbatch' = [mbatch EXCEPT !.pc = "await", !.i = @ + 1]
          /\ mt' = ProcessMeetingEntry(mbatch.meetings[mbatch.i + 1])
     ELSE /\ mbatch' = [mbatch EXCEPT !.pc = "returned"]
          /\ UNCHANGED mt
  /\ UNCHANGED <<docVars, reviewVars, extVars>>

\* await this.processMeeting(meetingData) settles: the result, or the entry
\* built in the catch block, is pushed
MeetingLoopPush ==
  /\ mbatch.pc = "await"
  /\ mt.pc \in {"returned", "threw"}
  /\ mbatch' = [mbatch EXCEPT !.pc = "loop",
                  !.results = Append(@,
                     IF mt.pc = "returned" THEN mt.result
                     ELSE [NoMeetingResult EXCEPT !.success = FALSE, !.error = mt.error.msg,
                             !.confluenceUrl = mbatch.meetings[mbatch.i]])]
  /\ mt' = IdleMeeting
  /\ UNCHANGED <<docVars, reviewVars, extVars>>

\* Another user of the page saves an edit
ExternalEdit ==
  /\ externalEdits < MaxExternalEdits
  /\ externalEdits' = externalEdits + 1
  /\ remote' = [remote EXCEPT !.version = @ + 1, !.content = @ \o <<"edit">>]
  /\ UNCHANGED <<cs, reviewVars, meetingVars, extVars>>

\* ------------------------------------------------------------------------
\* WebhookServer: the payload middleware, verifyGitHubSignature,
\* handleWebhook, handlePullRequestEvent, initializePRReviewer.
\* Requests are handled one after the other; the PRReviewer is kept between
\* requests.
\* ------------------------------------------------------------------------
\* config.webhook: the shared secret ("" when none is configured) and the
\* switch that turns validation off
WebhookSecret == "s3cret"

WebhookConfigs == [secret : {"", WebhookSecret}, skipSignatureValidation : BOOLEAN]

\* A parsed payload: an object with the fields the handlers read ("undefined"
\* for an absent action), or the JSON value null
EmptyPayload == [kind |-> "object", action |-> "undefined", number |-> 0, body |-> NullBody]

NullPayload == [kind |-> "null", action |-> "undefined", number |-> 0, body |-> NullBody]

PullRequestPayload(action, number, body) ==
  [kind |-> "object", action |-> action, number |-> number, body |-> body]

\* A raw body: how it is encoded ("json", "form" for payload=<json>, "empty",
\* "garbage" for text that is not JSON) and the JSON value it carries
RawBody(enc, payload) == [enc |-> enc, payload |-> payload]

\* req.on('end'): JSON.parse of the body or of the decoded payload= value;
\* {} for an empty body and when parsing throws
ParsePayload(rawBody) ==
  IF rawBody.enc \in {"json", "form"} THEN rawBody.payload ELSE EmptyPayload

\* 'sha256=' + HMAC-SHA256(secret, payload) in hex: equal digests only for
\* the same key and the same bytes
Hmac(secret, payload) == <<"sha256=", secret, payload>>

NoSignature == <<>>

ShortSignature == <<"sha256=", "abc">>

\* Byte length of a signature header
SignatureLength(signature) ==
  IF signature = NoSignature THEN 0
  ELSE IF signature = ShortSignature THEN 10
  ELSE 71

\* Mutant of verifyGitHubSignature: a request without the header passes
verifyGitHubSignatureMissingPasses(config, payload, signature) ==
  IF config.skipSignatureValidation THEN TRUE
  ELSE IF config.secret = "" THEN TRUE
  ELSE IF signature = NoSignature THEN TRUE
  ELSE IF SignatureLength(signature) # SignatureLength(Hmac(config.secret, payload)) THEN FALSE
  ELSE signature = Hmac(config.secret, payload)

\* crypto.timingSafeEqual throws on buffers of different length, which the
\* catch block turns into false; rawBody is a Buffer, never falsy
verifyGitHubSignature(config, payload, signature) ==
  IF config.skipSignatureValidation THEN TRUE
  ELSE IF config.secret = "" THEN TRUE
  ELSE IF signature = NoSignature THEN FALSE
  ELSE IF SignatureLength(signature) # SignatureLength(Hmac(config.secret, payload)) THEN FALSE
  ELSE signature = Hmac(config.secret, payload)

\* patterns.some(pattern => pattern.test(prBody))
checkForDesignDocumentUrl(prBody) ==
  \E pattern \in 1..4 : PatternMatches(prBody, pattern) # {}

reviewableActions == {"opened", "synchronize", "edited"}

NoRequest == [eventType |-> "undefined", signature |-> NoSignature,
              rawBody |-> RawBody("empty", EmptyPayload)]

NoResponse == [status |-> 0, message |-> "", error |-> ""]

Response(status, message, error) == [status |-> status, message |-> message, error |-> error]

IdleWebhook(config) ==
  [pc |-> "idle", config |-> config,
   prReviewer |-> "null",     \* this.prReviewer: "null" or "constructed"
   requests |-> 0,            \* requests received so far
   req |-> NoRequest, payload |-> EmptyPayload,
   verified |-> FALSE,        \* what verifyGitHubSignature returned
   handler |-> "none",        \* the event handler the request was dispatched to
   inits |-> 0,               \* calls of PRReviewer.initialize for this request
   reviews |-> 0,             \* calls of reviewPR for this request
   comments |-> <<>>,         \* comments posted by the review of this request
   res |-> NoResponse]

\* Mutant of handlePullRequestEvent: the description is not looked at
handlePullRequestEventNoDocCheck(w, payload) ==
  IF payload.kind = "null"
  THEN [w EXCEPT !.pc = "responded", !.res = Response(500, "", "Internal server error")]
  ELSE IF payload.action \notin reviewableActions
  THEN [w EXCEPT !.pc = "responded", !.res = Response(200, "PR action ignored", "")]
  ELSE IF w.prReviewer = "null"
  THEN [w EXCEPT !.pc = "initializePRReviewer", !.prReviewer = "constructed", !.inits = @ + 1]
  ELSE [w EXCEPT !.pc = "reviewPR", !.reviews = @ + 1]

\* handlePullRequestEvent up to its first await; w is the server with the
\* request recorded
handlePullRequestEvent(w, payload) ==
  IF payload.kind = "null"
  THEN \* payload.action throws; the route's catch answers
       [w EXCEPT !.pc = "responded", !.res = Response(500, "", "Internal server error")]
  ELSE IF payload.action \notin reviewableActions
  THEN [w EXCEPT !.pc = "responded", !.res = Response(200, "PR action ignored", "")]
  ELSE IF ~checkForDesignDocumentUrl(IF payload.body = NullBody THEN <<>> ELSE payload.body)
  THEN [w EXCEPT !.pc = "responded",
                 !.res = Response(200, "skipped - no design document URL found", "")]
  ELSE IF w.prReviewer = "null"
  THEN [w EXCEPT !.pc = "initializePRReviewer", !.prReviewer = "constructed", !.inits = @ + 1]
  ELSE [w EXCEPT !.pc = "reviewPR", !.reviews = @ + 1]

\* handleWebhook up to its first await
handleWebhook(w, req) ==
  LET payload == ParsePayload(req.rawBody)
      verified == verifyGitHubSignature(w.config, req.rawBody, req.signature)
      received == [w EXCEPT !.requests = @ + 1, !.req = req, !.payload = payload,
                            !.verified = verified, !.handler = "none",
                            !.inits = 0, !.reviews = 0, !.comments = <<>>,
                            !.res = NoResponse]
  IN IF ~verified
     THEN [received EXCEPT !.pc = "responded", !.res = Response(401, "", "Invalid signature")]
     ELSE CASE req.eventType = "pull_request" ->
                 handlePullRequestEvent([received EXCEPT !.handler = "pull_request"], payload)
            [] req.eventType = "pull_request_review" ->
                 [received EXCEPT !.pc = "responded", !.handler = "pull_request_review",
                    !.res = Response(200, "PR review events not currently processed", "")]
            [] req.eventType = "ping" ->
                 [received EXCEPT !.pc = "responded", !.handler = "ping",
                    !.res = Response(200, "pong", "")]
            [] OTHER ->
                 [received EXCEPT !.pc = "responded", !.handler = "default",
                    !.res = Response(200, "Event not handled", "")]

\* POST of the webhook path: middleware, then the route
ReceiveWebhook(req) ==
  /\ wh.pc \in {"idle", "responded"}
  /\ wh.requests < MaxRequests
  /\ rv.pc = "idle"
  /\ wh' = handleWebhook(wh, req)
  /\ rv' = IF wh'.pc = "reviewPR" THEN ReviewPREntry(wh'.payload.number) ELSE rv
  /\ UNCHANGED <<batch, docVars, meetingVars, ws, nz, sz, st, lz>>

\* PRReviewer.initialize: the two connection tests of Promise.all are answered
InitializePRReviewerStep(githubFault, confluenceFault) ==
  /\ wh.pc = "initializePRReviewer"
  /\ IF githubFault = 200 /\ confluenceFault = 200
     THEN /\ wh' = [wh EXCEPT !.pc = "reviewPR", !.reviews = @ + 1]
          /\ rv' = ReviewPREntry(wh.payload.number)
     ELSE /\ wh' = [wh EXCEPT !.pc = "responded",
                              !.res = Response(500, "Request failed", "Failed to review PR")]
          /\ UNCHANGED rv
  /\ UNCHANGED <<batch, docVars, meetingVars, ws, nz, sz, st, lz>>

\* await this.prReviewer.reviewPR(prNumber) settles
WebhookReviewSettled ==
  /\ wh.pc = "reviewPR"
  /\ rv.pc \in {"returned", "threw"}
  /\ wh' = [wh EXCEPT !.pc = "responded", !.comments = rv.comments,
                      !.res = IF rv.pc = "threw"
                              THEN Response(500, rv.thrown.msg, "Failed to review PR")
                              ELSE IF rv.result.success
                              THEN Response(200, "reviewed successfully", "")
                              ELSE Response(200, "review completed with warnings", "")]
  /\ rv' = IdleReview
  /\ UNCHANGED <<batch, docVars, meetingVars, ws, nz, sz, st, lz>>

\* ------------------------------------------------------------------------
\* WebServer.handleProcessMeeting: the form endpoint in front of the meeting
\* pipeline.  Requests are handled one after the other; the summarizer is
\* kept between requests.
\* ------------------------------------------------------------------------
\* A URL without a scheme: "new URL" throws on it although it holds a page ID
UrlNoScheme == << <<"txt","x.atlassian.net">>, <<"txt","wiki">>, <<"txt","pages">>,
                  <<"num","123456">>, <<"txt","Title">> >>

\* A form: the URL as its segments (<<>> for an absent or empty field) and
\* the summary ("" for an absent or empty field)
Form(url, summary) == [confluence_design_document_url |-> url, meeting_summary |-> summary]

NoForm == Form(<<>>, "")

\* new URL(s) throws unless s starts with a scheme
NewUrlThrows(url) == Len(url) = 0 \/ url[1] # <<"txt","https:">>

IdleWebServer ==
  [pc |-> "idle",
   meetingSummarizer |-> "null",   \* this.meetingSummarizer: "null" or "constructed"
   requests |-> 0,                 \* requests received so far
   req |-> NoForm,
   constructions |-> 0,            \* new MeetingSummarizer() for this request
   inits |-> 0,                    \* calls of initialize for this request
   runs |-> 0,                     \* calls of processMeeting for this request
   settled |-> "none",             \* how processMeeting settled: "returned", "threw"
   res |-> NoResponse]

\* Mutant of handleProcessMeeting: the URL is not validated
handleProcessMeetingNoUrlCheck(w, form) ==
  IF form.confluence_design_document_url = <<>> \/ form.meeting_summary = ""
  THEN [w EXCEPT !.pc = "responded", !.res = Response(400, "", "Missing required fields")]
  ELSE IF w.meetingSummarizer = "null"
  THEN [w EXCEPT !.pc = "initialize", !.meetingSummarizer = "constructed",
                 !.constructions = @ + 1, !.inits = @ + 1]
  ELSE [w EXCEPT !.pc = "processMeeting", !.runs = @ + 1]

\* handleProcessMeeting up to its first await; w is the server with the
\* request recorded
handleProcessMeeting(w, form) ==
  IF form.confluence_design_document_url = <<>> \/ form.meeting_summary = ""
  THEN [w EXCEPT !.pc = "responded", !.res = Response(400, "", "Missing required fields")]
  ELSE IF NewUrlThrows(form.confluence_design_document_url)
  THEN [w EXCEPT !.pc = "responded", !.res = Response(400, "", "Invalid Confluence URL format")]
  ELSE IF w.meetingSummarizer = "null"
  THEN [w EXCEPT !.pc = "initialize", !.meetingSummarizer = "constructed",
                 !.constructions = @ + 1, !.inits = @ + 1]
  ELSE [w EXCEPT !.pc = "processMeeting", !.runs = @ + 1]

\* POST /api/process-meeting
ReceiveProcessMeeting(form) ==
  /\ ws.pc \in {"idle", "responded"}
  /\ ws.requests < MaxRequests
  /\ mt.pc = "idle"
  /\ ws' = handleProcessMeeting([ws EXCEPT !.requests = @ + 1, !.req = form,
                                           !.constructions = 0, !.inits = 0, !.runs = 0,
                                           !.settled = "none", !.res = NoResponse], form)
  /\ mt' = IF ws'.pc = "processMeeting"
           THEN ProcessMeetingEntry(form.confluence_design_document_url)
           ELSE mt
  /\ UNCHANGED <<mbatch, docVars, reviewVars, wh, nz, sz, st, lz>>

\* MeetingSummarizer.initialize: the connection test is answered
InitializeSummarizerStep(fault) ==
  /\ ws.pc = "initialize"
  /\ IF fault = 200
     THEN /\ ws' = [ws EXCEPT !.pc = "processMeeting", !.runs = @ + 1]
          /\ mt' = ProcessMeetingEntry(ws.req.confluence_design_document_url)
     ELSE /\ ws' = [ws EXCEPT !.pc = "responded", !.res = Response(500, "", "Request failed")]
          /\ UNCHANGED mt
  /\ UNCHANGED <<mbatch, docVars, reviewVars, wh, nz, sz, st, lz>>

\* await this.meetingSummarizer.processMeeting(...) settles
WebProcessMeetingSettled ==
  /\ ws.pc = "processMeeting"
  /\ mt.pc \in {"returned", "threw"}
  /\ ws' = [ws EXCEPT !.pc = "responded", !.settled = mt.pc,
                      !.res = IF mt.pc = "threw"
                              THEN Response(500, "", mt.error.msg)
                              ELSE Response(200, "Meeting processed", "")]
  /\ mt' = IdleMeeting
  /\ UNCHANGED <<mbatch, docVars, reviewVars, wh, nz, sz, st, lz>>

\* ------------------------------------------------------------------------
\* LLMService.extractContentFromCustomResponse
\* ------------------------------------------------------------------------
\* JavaScript values a member of the response may hold
Undefined == [t |-> "undefined", s |-> ""]

Null == [t |-> "null", s |-> ""]

Str(s) == [t |-> "string", s |-> s]

Num(s) == [t |-> "number", s |-> s]

\* The value converts to true in a condition
Truthy(v) ==
  \/ v.t = "string" /\ v.s # ""
  \/ v.t = "number" /\ v.s # "0"

\* responseData.choices: absent, or an array that is empty, or whose first
\* element has no message, or has a message with the given content
NoChoices == [kind |-> "absent", first |-> "none", content |-> Undefined]

EmptyChoices == [kind |-> "array", first |-> "none", content |-> Undefined]

ChoicesWithoutMessage == [kind |-> "array", first |-> "noMessage", content |-> Undefined]

ChoicesWithMessage(content) == [kind |-> "array", first |-> "message", content |-> content]

\* An element of a content array
Part(type, text) == [type |-> type, text |-> text]

\* The content member of an output item: absent, a string or an array of parts
NoContent == [kind |-> "absent", s |-> "", parts |-> <<>>]

StringContent(s) == [kind |-> "string", s |-> s, parts |-> <<>>]

ArrayContent(parts) == [kind |-> "array", s |-> "", parts |-> parts]

\* An element of the output array
Item(type, content) == [type |-> type, content |-> content]

\* responseData.output: absent, a string or an array of items
NoOutput == [kind |-> "absent", items |-> <<>>]

StringOutput == [kind |-> "string", items |-> <<>>]

ArrayOutput(items) == [kind |-> "array", items |-> items]

\* The argument: undefined, null, a string, a number or an object
Primitive(v) ==
  [t |-> v.t, s |-> v.s, choices |-> NoChoices, output |-> NoOutput,
   response |-> Undefined, text |-> Undefined]

ResponseObject(choices, output, response, text) ==
  [t |-> "object", s |-> "", choices |-> choices, output |-> output,
   response |-> response, text |-> text]

NoInput == Primitive([t |-> "none", s |-> ""])

\* Outcomes of the try block: a returned value, the text JSON.stringify(d, null, 2)
\* (which names d), or a TypeError thrown
NoOutcome == [threw |-> FALSE, t |-> "none", s |-> "", json |-> NoInput]

Returned(v) == [threw |-> FALSE, t |-> v.t, s |-> v.s, json |-> NoInput]

JsonText(d) == [threw |-> FALSE, t |-> "string", s |-> "", json |-> d]

Thrown == [threw |-> TRUE, t |-> "undefined", s |-> "", json |-> NoInput]

CouldNotExtract == Returned(Str("Error: Could not extract content from response"))

\* Array.prototype.find on the type member: the index of the first element of
\* that type, 0 when there is none
FindType(seq, type) ==
  LET found == {i \in 1..Len(seq) : seq[i].type = type}
  IN IF found = {} THEN 0 ELSE Min(found)

\* "responseData.choices && responseData.choices[0] && responseData.choices[0].message"
HasChoicesMessage(d) == d.choices.kind = "array" /\ d.choices.first = "message"

\* "responseData.output && Array.isArray(responseData.output)"
HasOutputArray(d) == d.output.kind = "array"

\* "responseData.response && typeof responseData.response === 'string'"
HasResponseString(d) == Truthy(d.response) /\ d.response.t = "string"

\* "responseData.text && typeof responseData.text === 'string'"
HasTextString(d) == Truthy(d.text) /\ d.text.t = "string"

\* The text of the output_text part of the first item of type message,
\* Undefined when the search ends without a text
MessageOutputText(items) ==
  LET mi == FindType(items, "message")
  IN IF mi # 0 /\ items[mi].content.kind = "array"
     THEN LET parts == items[mi].content.parts
              ti == FindType(parts, "output_text")
          IN IF ti # 0 /\ Truthy(parts[ti].text) THEN parts[ti].text ELSE Undefined
     ELSE Undefined

\* "Fallback: try first output item": Undefined when it gives nothing
FirstOutputContent(items) ==
  IF Len(items) = 0 THEN Undefined
  ELSE LET content == items[1].content
       IN IF content.kind = "string"
          THEN (IF content.s # "" THEN Str(content.s) ELSE Undefined)
          ELSE IF content.kind = "array" /\ Len(content.parts) > 0 /\ Truthy(content.parts[1].text)
          THEN content.parts[1].text
          ELSE Undefined

\* The branch taken for an output array
FromOutput(d) ==
  IF MessageOutputText(d.output.items) # Undefined
  THEN Returned(MessageOutputText(d.output.items))
  ELSE IF FirstOutputContent(d.output.items) # Undefined
  THEN Returned(FirstOutputContent(d.output.items))
  ELSE JsonText(d)

\* Mutant of extractContentTry: the flat members are looked at before the output array
extractContentTryFlatFirst(d) ==
  IF d.t \in {"undefined", "null"} THEN Thrown
  ELSE IF HasChoicesMessage(d) THEN Returned(d.choices.content)
  ELSE IF HasResponseString(d) THEN Returned(d.response)
  ELSE IF HasTextString(d) THEN Returned(d.text)
  ELSE IF HasOutputArray(d) THEN FromOutput(d)
  ELSE IF d.t = "string" THEN Returned(Str(d.s))
  ELSE JsonText(d)

\* The try block: reading a member of undefined or null throws; then the
\* if / else-if chain, and the JSON text when no branch returns
extractContentTry(d) ==
  IF d.t \in {"undefined", "null"} THEN Thrown
  ELSE IF HasChoicesMessage(d) THEN Returned(d.choices.content)
  ELSE IF HasOutputArray(d) THEN FromOutput(d)
  ELSE IF HasResponseString(d) THEN Returned(d.response)
  ELSE IF HasTextString(d) THEN Returned(d.text)
  ELSE IF d.t = "string" THEN Returned(Str(d.s))
  ELSE JsonText(d)

\* The function: what the try block returns, or the fixed text of the catch block
extractContentFromCustomResponse(d) ==
  IF extractContentTry(d).threw THEN CouldNotExtract ELSE extractContentTry(d)

IdleNormalize == [pc |-> "idle", input |-> NoInput, caught |-> FALSE, result |-> NoOutcome]

\* The call of the function on the argument nz.input, run to its return
CallExtractContent ==
  /\ nz.pc = "idle"
  /\ nz' = [nz EXCEPT !.pc = "returned",
                      !.caught = extractContentTry(nz.input).threw,
                      !.result = extractContentFromCustomResponse(nz.input)]
  /\ UNCHANGED <<docVars, reviewVars, meetingVars, wh, ws, sz, st, lz>>

\* ------------------------------------------------------------------------
\* Calls of ConfluenceService.sanitizeContentForConfluence
\* ------------------------------------------------------------------------
IdleSanitize ==
  [pc |-> "idle", content |-> NullContent,
   throws |-> FALSE,   \* a call made inside the try block will throw
   caught |-> FALSE,   \* the first call ended in the catch block
   once |-> <<>>,      \* what the call returned
   twice |-> <<>>]     \* what a second call, on that result, returned

LoggerFailed == "logger failed"

\* The function is called on sz.content
CallSanitizeContent ==
  /\ sz.pc = "idle"
  /\ sz' = [sz EXCEPT !.pc = "once",
                      !.caught = (sz.throws /\ sz.content # NullContent /\ sz.content # <<>>),
                      !.once = sanitizeContentOutcome(sz.content, sz.throws, LoggerFailed)]
  /\ UNCHANGED <<docVars, reviewVars, meetingVars, wh, ws, nz, st, lz>>

\* The function is called on what it returned
SanitizeAgain ==
  /\ sz.pc = "once"
  /\ sz' = [sz EXCEPT !.pc = "twice",
                      !.twice = sanitizeContentOutcome(sz.once, FALSE, "")]
  /\ UNCHANGED <<docVars, reviewVars, meetingVars, wh, ws, nz, st, lz>>

\* ------------------------------------------------------------------------
\* Starting the process: validateConfig and the four entry points
\* ------------------------------------------------------------------------
\* What a setting holds: nothing, the empty string, or some text
Unset == "undefined"

SettingValues == {Unset, "", "set"}

requiredFields ==
  << "GITHUB_TOKEN", "GITHUB_REPO_OWNER", "GITHUB_REPO_NAME",
     "ATLASSIAN_API_TOKEN", "ATLASSIAN_DOMAIN", "ATLASSIAN_EMAIL",
     "OPENAI_API_KEY" >>

\* !value, for a value that is a string or undefined
NotValue(value) == value \in {Unset, ""}

\* A variant that only notices settings that were never given
validateConfigUndefinedOnly(config) ==
  LET missingFields == SelectSeq(requiredFields, LAMBDA name : config[name] = Unset)
  IN  [threw |-> Len(missingFields) > 0, missingNames |-> missingFields]

\* validateConfig: the names of the fields without a value, in the order of
\* requiredFields, are the message of the error thrown
validateConfig(config) ==
  LET missingFields == SelectSeq(requiredFields, LAMBDA name : NotValue(config[name]))
  IN  [threw |-> Len(missingFields) > 0, missingNames |-> missingFields]

EntryPoints == {"main", "reviewMultiple", "webServer", "webhook"}

IdleStartup ==
  [pc |-> "idle", entry |-> "main",
   config |-> [name \in Range(requiredFields) |-> "set"],
   validated |-> "no",     \* "ok" or "threw" once validateConfig was called
   missingNames |-> <<>>,  \* the names in the message of the error thrown
   servers |-> 0,          \* express applications constructed
   services |-> 0,         \* orchestrators, and with them services, constructed
   requests |-> 0,         \* outbound requests made
   exitCode |-> -1]

\* The first statements of main, reviewMultiple, WebServer.initialize (after
\* main constructed the WebServer) and startWebhookServer
ValidateConfigStep ==
  /\ st.pc = "start"
  /\ LET result == validateConfig(st.config)
         servers == IF st.entry = "webServer" THEN 1 ELSE 0
     IN  st' = IF result.threw
               THEN [st EXCEPT !.pc = "exited", !.validated = "threw",
                               !.missingNames = result.missingNames,
                               !.servers = servers, !.exitCode = 1]
               ELSE [st EXCEPT !.pc = IF st.entry \in {"main", "reviewMultiple"}
                                      THEN "arguments" ELSE "listen",
                               !.validated = "ok", !.servers = servers]
  /\ UNCHANGED <<docVars, reviewVars, meetingVars, wh, ws, nz, sz, lz>>

\* The command line is checked, then the orchestrator is constructed
CheckArgumentsStep(argumentsOk) ==
  /\ st.pc = "arguments"
  /\ st' = IF argumentsOk
           THEN [st EXCEPT !.pc = "initialize", !.services = 1]
           ELSE [st EXCEPT !.pc = "exited", !.exitCode = 1]
  /\ UNCHANGED <<docVars, reviewVars, meetingVars, wh, ws, nz, sz, lz>>

\* PRReviewer.initialize: both services test their connection
StartupInitializeStep(githubFault, confluenceFault) ==
  /\ st.pc = "initialize"
  /\ st' = IF githubFault = 200 /\ confluenceFault = 200
           THEN [st EXCEPT !.pc = "run", !.requests = @ + 2]
           ELSE [st EXCEPT !.pc = "exited", !.requests = @ + 2, !.exitCode = 1]
  /\ UNCHANGED <<docVars, reviewVars, meetingVars, wh, ws, nz, sz, lz>>

\* reviewPR or reviewMultiplePRs runs; only reviewPR lets an error out
StartupRunStep(threw) ==
  /\ st.pc = "run"
  /\ st' = IF threw /\ st.entry = "main"
           THEN [st EXCEPT !.pc = "exited", !.requests = @ + 1, !.exitCode = 1]
           ELSE [st EXCEPT !.pc = "finished", !.requests = @ + 1]
  /\ UNCHANGED <<docVars, reviewVars, meetingVars, wh, ws, nz, sz, lz>>

\* app.listen, for the webhook server after it was constructed
ListenStep(listening) ==
  /\ st.pc = "listen"
  /\ st' = IF listening
           THEN [st EXCEPT !.pc = "serving", !.servers = 1]
           ELSE [st EXCEPT !.pc = "exited", !.servers = 1, !.exitCode = 1]
  /\ UNCHANGED <<docVars, reviewVars, meetingVars, wh, ws, nz, sz, lz>>

\* The first request that needs the orchestrator constructs and initializes it
FirstRequestStep ==
  /\ st.pc = "serving"
  /\ st.services = 0
  /\ st' = [st EXCEPT !.services = 1, !.requests = @ + 2]
  /\ UNCHANGED <<docVars, reviewVars, meetingVars, wh, ws, nz, sz, lz>>

\* ------------------------------------------------------------------------
\* The orchestrator of a server, created by the first request that needs it:
\* WebhookServer.initializePRReviewer and the same lines of
\* WebServer.handleProcessMeeting. Requests are handled concurrently: a
\* handler runs until its next await, then another may run.
\* ------------------------------------------------------------------------
Handlers == {"h1", "h2"}

IdleHandler ==
  [pc |-> "idle",
   onInitialized |-> FALSE,  \* initialize() had succeeded when the pipeline was invoked
   status |-> 0]             \* the status of the response

IdleLazy ==
  [server |-> "webhook",
   orchestrator |-> "null",  \* this.prReviewer, this.meetingSummarizer
   initialized |-> FALSE,    \* initialize() of the orchestrator has succeeded
   constructions |-> 0,      \* new PRReviewer(), new MeetingSummarizer() so far
   initializeCalls |-> 0,    \* calls of initialize() so far
   received |-> 0,           \* requests that reached these lines so far
   handlers |-> [h \in Handlers |-> IdleHandler]]

\* Mutant of LazyInitialize: the orchestrator is not kept
LazyInitializeNoAssign(l, h) ==
  IF l.orchestrator = "null"
  THEN [l EXCEPT !.constructions = @ + 1, !.initializeCalls = @ + 1,
                 !.handlers[h].pc = "initialize"]
  ELSE [l EXCEPT !.handlers[h].pc = "pipeline",
                 !.handlers[h].onInitialized = l.initialized]

\* if (!this.prReviewer) { this.prReviewer = new PRReviewer();
\*                         await this.prReviewer.initialize(); }
\* and the call of the pipeline that follows when the handle is set
LazyInitialize(l, h) ==
  IF l.orchestrator = "null"
  THEN [l EXCEPT !.orchestrator = "constructed",
                 !.constructions = @ + 1, !.initializeCalls = @ + 1,
                 !.handlers[h].pc = "initialize"]
  ELSE [l EXCEPT !.handlers[h].pc = "pipeline",
                 !.handlers[h].onInitialized = l.initialized]

\* A request that passed the checks of its handler reaches these lines
ReceiveLazy(h) ==
  /\ lz.handlers[h].pc \in {"idle", "responded"}
  /\ lz.received < MaxLazyRequests
  /\ lz' = LazyInitialize([lz EXCEPT !.received = @ + 1, !.handlers[h] = IdleHandler], h)
  /\ UNCHANGED <<docVars, reviewVars, meetingVars, wh, ws, nz, sz, st>>

\* initialize() settles: PRReviewer tests both connections, MeetingSummarizer
\* the one to Confluence. On success the pipeline is invoked; on failure the
\* catch block of the handler answers 500 and the handle stays as it is
LazyInitializeSettles(h, githubFault, confluenceFault) ==
  /\ lz.handlers[h].pc = "initialize"
  /\ lz.server = "webServer" => githubFault = 200
  /\ lz' = IF githubFault = 200 /\ confluenceFault = 200
           THEN [lz EXCEPT !.initialized = TRUE,
                           !.handlers[h].pc = "pipeline",
                           !.handlers[h].onInitialized = TRUE]
           ELSE [lz EXCEPT !.handlers[h].pc = "responded", !.handlers[h].status = 500]
  /\ UNCHANGED <<docVars, reviewVars, meetingVars, wh, ws, nz, sz, st>>

\* reviewPR or processMeeting settles and the response is sent
LazyPipelineSettles(h, threw) ==
  /\ lz.handlers[h].pc = "pipeline"
  /\ lz' = [lz EXCEPT !.handlers[h].pc = "responded",
                      !.handlers[h].status = IF threw THEN 500 ELSE 200]
  /\ UNCHANGED <<docVars, reviewVars, meetingVars, wh, ws, nz, sz, st>>

\* ------------------------------------------------------------------------
\* Specifications
\* ------------------------------------------------------------------------
\* Outcomes of each outbound call: 200, or one of the failures the callee
\* tells apart, and one it does not
PutFaults == {200} \cup FailStatuses

\* The data that may come with a failed PUT
BadRequestData ==
  { ObjectData(TRUE, <<"title: required", "body.value: invalid">>, "Bad Request"),
    ObjectData(TRUE, <<>>, "Bad Request"),
    ObjectData(FALSE, <<>>, "Bad Request"),
    TextData("Bad Request"),
    NoData }

ResponseData(fault) ==
  IF fault = 400 THEN BadRequestData
  ELSE IF fault = 500 THEN {NoData, TextData("Internal Server Error")}
  ELSE {NoData}

GetVersionFaults == {200, 0, 404}

GitHubGetFaults == {200, 404, 500}

CommentFaults == {200, 500}

PageGetFaults == {200, 401, 403, 404, 500}

ModelFaults == {200, 500}

\* Contents handed to the write paths by direct users
Contents == { <<"hello">>, <<"<", "script", ">", "x">> }

WriterUrls == {UrlPages, UrlNoId}

SampleBodies ==
  { <<"confluence_url", ":", "https://x/wiki/Title", " ",
      "confluence_design_document_url", ":", " ", "https://x/wiki/spaces/S/pages/123456/Title">>,
    <<"fixes", " ", "Confluence Design Document URL", ":", " ", "\n">>,
    <<"confluence_design_document_url", ":", ":", " ">> }

PrBodies == SeqsUpTo(DescTokens, MaxDescLen) \cup SampleBodies \cup {NullBody}

BatchBodies == SampleBodies \cup {NullBody}

PrNumberLists == SeqsUpTo(PrNumbers, MaxBatch)

MeetingLists == SeqsUpTo(WriterUrls, MaxBatch)

\* Requests sent to the webhook
EventTypes == {"pull_request", "pull_request_review", "ping", "push"}

WebhookActions == reviewableActions \cup {"closed"}

WebhookPrBodies ==
  BatchBodies \cup
    { <<"Confluence Design Document URL", ":", " ", "https://x/wiki/spaces/S/pages/123456/Title">>,
      <<"fixes", " ", "confluence_design_document_url", " ">> }

WebhookPayloads ==
  {EmptyPayload, NullPayload}
    \cup {PullRequestPayload(action, 101, body) : action \in WebhookActions, body \in WebhookPrBodies}

RawBodies ==
  {RawBody("empty", EmptyPayload), RawBody("garbage", EmptyPayload)}
    \cup {RawBody("json", payload) : payload \in WebhookPayloads}
    \cup {RawBody("form", PullRequestPayload("opened", 101, body)) : body \in BatchBodies}

\* The body a signature was made for when the body sent is another one
SignedBody == RawBody("json", PullRequestPayload("closed", 101, NullBody))

SignaturesFor(rawBody) ==
  {NoSignature, ShortSignature, Hmac(WebhookSecret, rawBody), Hmac("guess", rawBody),
   Hmac(WebhookSecret, SignedBody)}

\* Events of other types come with a few of the bodies only
OtherEventBodies ==
  {RawBody("empty", EmptyPayload), RawBody("json", NullPayload), SignedBody,
   RawBody("json", PullRequestPayload("opened", 101, NullBody))}

WebhookRequests ==
  UNION {{[eventType |-> eventType, signature |-> signature, rawBody |-> rawBody] :
            eventType \in IF rawBody \in OtherEventBodies THEN EventTypes ELSE {"pull_request"},
            signature \in SignaturesFor(rawBody)} :
         rawBody \in RawBodies}

InitializeFaults == {200, 401}

\* Forms sent to the form endpoint
Forms == {Form(url, summary) : url \in {<<>>, UrlNoScheme, UrlPages, UrlNoId},
                               summary \in {"", "notes"}}

InitPipelines ==
  /\ remote \in InitPages
  /\ cs = [c \in Callers |-> IdleCaller]
  /\ externalEdits = 0
  /\ rv = IdleReview
  /\ batch = IdleBatch
  /\ mt = IdleMeeting
  /\ mbatch = IdleMeetingBatch

InitServers ==
  /\ wh = IdleWebhook([secret |-> WebhookSecret, skipSignatureValidation |-> FALSE])
  /\ ws = IdleWebServer

InitCalls ==
  /\ nz = IdleNormalize
  /\ sz = IdleSanitize
  /\ st = IdleStartup
  /\ lz = IdleLazy

Init == InitPipelines /\ InitServers /\ InitCalls

\* Two direct users of the document client working on the same page
NextDoc ==
  \/ \E w \in Writers, url \in WriterUrls, content \in Contents : CallAppendToPage(w, url, content)
  \/ \E w \in Writers, url \in WriterUrls, content \in Contents : CallSafeUpdatePageContent(w, url, content)
  \/ \E w \in Writers, fault \in GetVersionFaults : GetPageVersionStep(w, fault)
  \/ \E w \in Writers, fault \in PutFaults : \E data \in ResponseData(fault) :
        UpdatePageContentStep(w, fault, data)

SpecDoc == Init /\ [][NextDoc]_vars

\* Two direct users appending to the same page
NextAppend ==
  \/ \E w \in Writers, url \in WriterUrls, content \in Contents : CallAppendToPage(w, url, content)
  \/ \E w \in Writers, fault \in GetVersionFaults : GetPageVersionStep(w, fault)
  \/ \E w \in Writers, fault \in PutFaults : \E data \in ResponseData(fault) :
        UpdatePageContentStep(w, fault, data)

SpecAppend == Init /\ [][NextAppend]_vars

\* The review pipeline: one reviewPR, or a batch
NextReview ==
  \/ \E prNumber \in PrNumbers : StartReviewPR(prNumber)
  \/ \E prNumbers \in PrNumberLists : StartReviewMultiplePRs(prNumbers)
  \/ ReviewLoopNext
  \/ ReviewLoopPush
  \/ \E fault \in GitHubGetFaults, hasPr \in BOOLEAN, body \in PrBodies : GetPullRequestDetailsStep(fault, hasPr, body)
  \/ \E fault \in GitHubGetFaults : GetPullRequestDiffStep(fault)
  \/ \E fault \in CommentFaults : PostMissingCommentStep(fault)
  \/ \E fault \in PageGetFaults, hasContent \in BOOLEAN : GetPageContentStep(fault, hasContent)
  \/ \E fault \in ModelFaults, hasText \in BOOLEAN : AnalyzeChangesStep(fault, hasText)
  \/ \E fault \in CommentFaults : PostReviewCommentStep(fault)
  \/ \E fault \in CommentFaults : PostErrorCommentStep(fault)

InitReview == Init /\ remote.version = 1

SpecReview == InitReview /\ [][NextReview]_vars

\* The meeting pipeline: one processMeeting, or a batch, while another user
\* may edit the page
NextMeeting ==
  \/ \E url \in WriterUrls : StartProcessMeeting(url)
  \/ \E meetings \in MeetingLists : StartProcessMultipleMeetings(meetings)
  \/ MeetingLoopNext
  \/ MeetingLoopPush
  \/ \E fault \in PageGetFaults, hasContent \in BOOLEAN : MeetingGetPageContentStep(fault, hasContent)
  \/ \E fault \in ModelFaults, text \in Texts \cup {NullText} : AnalyzeMeetingContentStep(fault, text)
  \/ \E fault \in GetVersionFaults : GetPageVersionStep(MeetingCaller, fault)
  \/ \E fault \in PutFaults : \E data \in ResponseData(fault) :
        UpdatePageContentStep(MeetingCaller, fault, data)
  \/ MeetingAppendSettled
  \/ ExternalEdit

SpecMeeting == Init /\ [][NextMeeting]_vars

\* Model responses with and without an update to write
SharedTexts == {<<"{", ShouldUpdateMember, UpdatedContentMember, "}">>, NullText}

\* One processMeeting and a direct user of safeUpdatePageContent on the same
\* page, while another user may edit it
NextShared ==
  \/ \E url \in WriterUrls : StartProcessMeeting(url)
  \/ \E fault \in PageGetFaults, hasContent \in BOOLEAN : MeetingGetPageContentStep(fault, hasContent)
  \/ \E fault \in ModelFaults, text \in SharedTexts : AnalyzeMeetingContentStep(fault, text)
  \/ MeetingAppendSettled
  \/ \E content \in Contents : CallSafeUpdatePageContent("w1", UrlPages, content)
  \/ \E w \in {"w1", MeetingCaller}, fault \in GetVersionFaults : GetPageVersionStep(w, fault)
  \/ \E w \in {"w1", MeetingCaller}, fault \in PutFaults : \E data \in ResponseData(fault) :
        UpdatePageContentStep(w, fault, data)
  \/ ExternalEdit

SpecShared == Init /\ [][NextShared]_vars

\* Batch processing: reviewMultiplePRs or processMultipleMeetings
NextBatch ==
  \/ \E prNumbers \in PrNumberLists : StartReviewMultiplePRs(prNumbers)
  \/ ReviewLoopNext
  \/ ReviewLoopPush
  \/ \E fault \in GitHubGetFaults, hasPr \in BOOLEAN, body \in BatchBodies : GetPullRequestDetailsStep(fault, hasPr, body)
  \/ \E fault \in GitHubGetFaults : GetPullRequestDiffStep(fault)
  \/ \E fault \in CommentFaults : PostMissingCommentStep(fault)
  \/ \E fault \in PageGetFaults, hasContent \in BOOLEAN : GetPageContentStep(fault, hasContent)
  \/ \E fault \in ModelFaults, hasText \in BOOLEAN : AnalyzeChangesStep(fault, hasText)
  \/ \E fault \in CommentFaults : PostReviewCommentStep(fault)
  \/ \E fault \in CommentFaults : PostErrorCommentStep(fault)
  \/ \E meetings \in MeetingLists : StartProcessMultipleMeetings(meetings)
  \/ MeetingLoopNext
  \/ MeetingLoopPush
  \/ \E fault \in PageGetFaults, hasContent \in BOOLEAN : MeetingGetPageContentStep(fault, hasContent)
  \/ \E fault \in ModelFaults, text \in SampleTexts \cup {NullText} : AnalyzeMeetingContentStep(fault, text)
  \/ \E fault \in GetVersionFaults : GetPageVersionStep(MeetingCaller, fault)
  \/ \E fault \in PutFaults : \E data \in ResponseData(fault) :
        UpdatePageContentStep(MeetingCaller, fault, data)
  \/ MeetingAppendSettled

SpecBatch == InitReview /\ [][NextBatch]_vars

\* Every outbound call is answered and every continuation is run. A call
\* that is waiting stops waiting with any answer, so fairness for one answer
\* of each call (its failure) says that no call waits for ever, and leaves
\* open which answer comes. Starting a pipeline is up to the caller.
ReviewProgress ==
  \/ ReviewLoopNext
  \/ ReviewLoopPush
  \/ GetPullRequestDetailsStep(500, FALSE, NullBody)
  \/ GetPullRequestDiffStep(500)
  \/ PostMissingCommentStep(500)
  \/ GetPageContentStep(500, FALSE)
  \/ AnalyzeChangesStep(500, FALSE)
  \/ PostReviewCommentStep(500)
  \/ PostErrorCommentStep(500)

MeetingProgress ==
  \/ MeetingLoopNext
  \/ MeetingLoopPush
  \/ MeetingGetPageContentStep(500, FALSE)
  \/ AnalyzeMeetingContentStep(500, NullText)
  \/ GetPageVersionStep(MeetingCaller, 404)
  \/ UpdatePageContentStep(MeetingCaller, 500, NoData)
  \/ MeetingAppendSettled

FairSpecBatch ==
  /\ InitReview
  /\ [][NextBatch]_vars
  /\ WF_vars(ReviewProgress)
  /\ WF_vars(MeetingProgress)

\* The webhook server receiving requests; a review it starts runs to its end
NextWebhook ==
  \/ \E req \in WebhookRequests : ReceiveWebhook(req)
  \/ \E githubFault \in InitializeFaults, confluenceFault \in InitializeFaults :
        InitializePRReviewerStep(githubFault, confluenceFault)
  \/ WebhookReviewSettled
  \/ \E fault \in GitHubGetFaults, hasPr \in BOOLEAN, body \in BatchBodies : GetPullRequestDetailsStep(fault, hasPr, body)
  \/ \E fault \in GitHubGetFaults : GetPullRequestDiffStep(fault)
  \/ \E fault \in CommentFaults : PostMissingCommentStep(fault)
  \/ \E fault \in PageGetFaults, hasContent \in BOOLEAN : GetPageContentStep(fault, hasContent)
  \/ \E fault \in ModelFaults, hasText \in BOOLEAN : AnalyzeChangesStep(fault, hasText)
  \/ \E fault \in CommentFaults : PostReviewCommentStep(fault)
  \/ \E fault \in CommentFaults : PostErrorCommentStep(fault)

InitWebhook ==
  /\ InitPipelines
  /\ remote.version = 1
  /\ wh \in {IdleWebhook(config) : config \in WebhookConfigs}
  /\ ws = IdleWebServer
  /\ InitCalls

SpecWebhook == InitWebhook /\ [][NextWebhook]_vars

\* Arguments of extractContentFromCustomResponse
PartChoices == {Part("output_text", Str("pt")), Part("other", Str("ot"))}

OutputContents ==
  {NoContent, StringContent("oc")}
    \cup {ArrayContent(parts) : parts \in SeqsUpTo(PartChoices, MaxParts)}

OutputItems == {Item(type, content) : type \in {"message", "other"}, content \in OutputContents}

Outputs ==
  {NoOutput, StringOutput} \cup {ArrayOutput(items) : items \in SeqsUpTo(OutputItems, MaxOutputLen)}

ChoicesValues ==
  {NoChoices, ChoicesWithoutMessage}
    \cup {ChoicesWithMessage(content) : content \in {Null, Str("cc")}}

ResponseValues == {Undefined, Str("rr"), Num("7")}

TextValues == {Undefined, Str("tt")}

ResponseDatas ==
  {Primitive(v) : v \in {Undefined, Null, Str(""), Str("raw"), Num("7")}}
    \cup {ResponseObject(choices, output, response, text) :
            choices \in ChoicesValues, output \in Outputs,
            response \in ResponseValues, text \in TextValues}
    \cup {ResponseObject(NoChoices, ArrayOutput(<<Item(type, ArrayContent(<<Part("output_text", text)>>))>>),
                          Str("rr"), Str("tt")) :
            type \in {"message", "other"}, text \in {Undefined, Str(""), Num("7")}}
    \cup {ResponseObject(choices, NoOutput, response, text) :
            choices \in {EmptyChoices, ChoicesWithMessage(Undefined), ChoicesWithMessage(Num("7"))},
            response \in {Undefined, Str(""), Str("rr")}, text \in {Str("tt"), Num("7")}}

\* A call of the normalizer, on any of the arguments
InitNormalize ==
  /\ InitPipelines
  /\ remote.version = 1
  /\ InitServers
  /\ nz \in {[IdleNormalize EXCEPT !.input = d] : d \in ResponseDatas}
  /\ sz = IdleSanitize
  /\ st = IdleStartup
  /\ lz = IdleLazy

NextNormalize == CallExtractContent

SpecNormalize == InitNormalize /\ [][NextNormalize]_vars

\* Arguments of sanitizeContentForConfluence: every short token sequence, some
\* longer ones, and a missing argument
SanitizerTokens == {"<", ">", "/", " ", "&lt;", "&gt;", "p", "script", "hello"}

SampleContents ==
  { <<"<", "script", ">", "hello", "<", "/", "script", ">">>,
    <<"<", "p", ">", "hello", "<", "/", "p", ">", "<", "script", ">">>,
    <<"<", "p", " ", "hello", ">", "<", "br", ">", "hello">>,
    <<"&lt;", "script", " ", "&gt;", "hello", "&", "hello">>,
    <<"<", "DIV", ">", "<", "script", " ", "hello", ">", "<", "/", "DIV", ">">>,
    <<"hello", " ", "<", " ", "hello", " ", "&", " ", "hello">>,
    <<"<", "SCRIPT", ">", "hello", "<", "/", "SCRIPT", ">">>,
    <<"&amp;", "&lt;", "p", "&gt;", "&">> }

SanitizerInputs ==
  SeqsUpTo(SanitizerTokens, MaxContentLen) \cup SampleContents \cup {NullContent}

\* A call of the sanitizer on any of the arguments, followed by a call on its
\* own result; for some arguments a call made inside the try block throws
InitSanitize ==
  /\ InitPipelines
  /\ remote.version = 1
  /\ InitServers
  /\ nz = IdleNormalize
  /\ sz \in {[IdleSanitize EXCEPT !.content = content] : content \in SanitizerInputs}
          \cup {[IdleSanitize EXCEPT !.content = content, !.throws = TRUE] :
                  content \in SampleContents \cup {NullContent, <<>>}}
  /\ st = IdleStartup
  /\ lz = IdleLazy

NextSanitize ==
  \/ CallSanitizeContent
  \/ SanitizeAgain

SpecSanitize == InitSanitize /\ [][NextSanitize]_vars

\* A start of the process from any entry point, with any settings
InitStartup ==
  /\ InitPipelines
  /\ remote.version = 1
  /\ InitServers
  /\ nz = IdleNormalize
  /\ sz = IdleSanitize
  /\ lz = IdleLazy
  /\ st \in {[IdleStartup EXCEPT !.pc = "start", !.entry = entry, !.config = config] :
               entry \in EntryPoints,
               config \in [Range(requiredFields) -> SettingValues]}

NextStartup ==
  \/ ValidateConfigStep
  \/ \E argumentsOk \in BOOLEAN : CheckArgumentsStep(argumentsOk)
  \/ \E githubFault \in {200, 401}, confluenceFault \in {200, 401} :
       StartupInitializeStep(githubFault, confluenceFault)
  \/ \E threw \in BOOLEAN : StartupRunStep(threw)
  \/ \E listening \in BOOLEAN : ListenStep(listening)
  \/ FirstRequestStep

SpecStartup == InitStartup /\ [][NextStartup]_vars

\* A server of either kind receiving requests concurrently
InitLazy ==
  /\ InitPipelines
  /\ remote.version = 1
  /\ InitServers
  /\ nz = IdleNormalize
  /\ sz = IdleSanitize
  /\ st = IdleStartup
  /\ lz \in {[IdleLazy EXCEPT !.server = server] : server \in {"webhook", "webServer"}}

NextLazy ==
  \/ \E h \in Handlers : ReceiveLazy(h)
  \/ \E h \in Handlers, githubFault \in InitializeFaults, confluenceFault \in InitializeFaults :
       LazyInitializeSettles(h, githubFault, confluenceFault)
  \/ \E h \in Handlers, threw \in BOOLEAN : LazyPipelineSettles(h, threw)

SpecLazy == InitLazy /\ [][NextLazy]_vars

\* The form endpoint receiving requests; a pipeline it starts runs to its end
NextWebServer ==
  \/ \E form \in Forms : ReceiveProcessMeeting(form)
  \/ \E fault \in InitializeFaults : InitializeSummarizerStep(fault)
  \/ WebProcessMeetingSettled
  \/ \E fault \in PageGetFaults, hasContent \in BOOLEAN : MeetingGetPageContentStep(fault, hasContent)
  \/ \E fault \in ModelFaults, text \in SampleTexts \cup {NullText} : AnalyzeMeetingContentStep(fault, text)
  \/ \E fault \in GetVersionFaults : GetPageVersionStep(MeetingCaller, fault)
  \/ \E fault \in PutFaults : \E data \in ResponseData(fault) :
        UpdatePageContentStep(MeetingCaller, fault, data)
  \/ MeetingAppendSettled

SpecWebServer == InitReview /\ [][NextWebServer]_vars

\* ------------------------------------------------------------------------
\* Properties of the document client (SpecDoc)
\* ------------------------------------------------------------------------

\* C1: every write sent by updatePageContent carries version.number equal to
\* the version returned by the getPageVersion read of the same operation plus
\* one (the page at 5 when read: the write sends 6).
C1_WriteSendsReadVersionPlusOne ==
  \A w \in Writers :
    cs[w].writes > 0 =>
      /\ cs[w].reads = 1
      /\ cs[w].pageInfo.version = cs[w].readSeen.version
      /\ cs[w].updateData.version = cs[w].readSeen.version + 1

C1_Witness ==
  \E w \in Writers :
    /\ cs[w].writes > 0
    /\ cs[w].readSeen.version = 5
    /\ cs[w].updateData.version = 6

\* C2: a write made with a version the remote has already left behind is
\* never answered with success and never changes the remote page; answered
\* 409, it reaches the caller as the version-conflict error.
C2_StaleWriteIsRejected ==
  [][\A w \in Writers :
       (/\ cs[w].pc = "updatePageContent"
        /\ cs'[w].pc # "updatePageContent"
        /\ remote.version # cs[w].pageInfo.version)
       => /\ remote' = remote
          /\ cs'[w].pc = "threw"
          /\ cs'[w].putStatus \in {409} \cup FailStatuses
          /\ cs'[w].putStatus = 409 =>
               cs'[w].error = NewError("Confluence page has been modified by someone else")]_vars

C2_Witness ==
  \E w1 \in Writers, w2 \in Writers :
    /\ w1 # w2
    /\ cs[w1].pc = "returned"
    /\ cs[w2].pc = "threw"
    /\ cs[w2].putStatus = 409
    /\ cs[w2].pageInfo.version = cs[w1].pageInfo.version
    /\ remote.version = cs[w1].pageInfo.version + 1
    /\ remote.content = cs[w1].updateData.body

C3_AppendOnly ==
  LET c == cs[MeetingCaller]
  IN /\ c.op \in {"none", "appendToPage"}
     /\ c.writes > 0 =>
          c.updateData.body =
            c.readSeen.content
              \o <<"\n", "<h2>", "Meeting Discussion Update", " - ", Today, "</h2>", "\n">>
              \o sanitizeContentForConfluence(mt.analysisResult.updatedContent)
              \o <<"\n", "<hr />", "\n">>
     /\ c.putStatus = 200 => IsPrefix(c.remoteSeen.content, c.updateData.body)

C3_Witness ==
  LET c == cs[MeetingCaller]
  IN /\ c.pc = "returned"
     /\ c.putStatus = 200
     /\ externalEdits = 1
     /\ "edit" \in Range(c.updateData.body)
     /\ remote.content = c.updateData.body

\* C8 as stated: processMeeting issues a document write if and only if the
\* document fetch and the model call succeeded and the analysis has
\* shouldUpdate true and a non-empty updatedContent.
C8_Original ==
  mt.pc \in {"returned", "threw"} =>
    (mt.append.writes > 0 <=>
       /\ mt.fetched
       /\ mt.analysed
       /\ mt.analysisResult.shouldUpdate
       /\ mt.analysisResult.updatedContent # <<>>)

\* C8 as amended: appendToPage is called if and only if the fetch and the
\* model call succeeded and the analysis has shouldUpdate true and a
\* non-empty updatedContent; the write is issued if and only if, in addition,
\* the version read of that append succeeded; the updatedContent flag of the
\* result is true exactly when the append succeeded, and a returning
\* execution without it has made no write request.
C8_WriteOnlyWhenAskedFor ==
  mt.pc \in {"returned", "threw"} =>
    LET asked == /\ mt.fetched
                 /\ mt.analysed
                 /\ mt.analysisResult.shouldUpdate
                 /\ mt.analysisResult.updatedContent # <<>>
    IN /\ mt.append.op = "appendToPage" <=> asked
       /\ asked => mt.append.reads = 1
       /\ mt.append.writes > 0 <=> (asked /\ mt.append.pageInfo # NoPageInfo)
       /\ mt.pc = "returned" =>
            /\ mt.result.updatedContent <=> (mt.appended /\ mt.append.putStatus = 200)
            /\ ~mt.result.updatedContent => mt.append.writes = 0
            /\ mt.result.updatedContent <=> asked

C8_Witness ==
  /\ mt.pc = "returned"
  /\ mt.result.updatedContent
  /\ mt.append.writes = 1
  /\ remote.content = mt.append.updateData.body

\* C9 as stated: for a response without a parsable JSON block the analysis
\* has shouldUpdate false and a non-empty summary.
C9_Original ==
  (mt.analysed /\ ~(JsonMatch(mt.analysisText) # <<>> /\ JsonParses(JsonMatch(mt.analysisText))))
    => /\ ~mt.analysisResult.shouldUpdate
       /\ mt.analysisResult.summary # ""

\* C9 as amended: for a response without a parsable JSON block the pipeline
\* does not throw at the parse and the summary is a non-empty fallback
\* string; shouldUpdate is true exactly when the text contains "should
\* update" or "needs update", and appendToPage is called exactly when, in
\* addition, content could be extracted from the text.
C9_FallbackAnalysis ==
  (mt.analysed /\ ~(JsonMatch(mt.analysisText) # <<>> /\ JsonParses(JsonMatch(mt.analysisText))))
    => LET phrase == /\ mt.analysisText # NullText
                     /\ \E i \in 1..Len(mt.analysisText) :
                          mt.analysisText[i] \in {"needs update", "Should Update"}
           content == /\ mt.analysisText # NullText
                      /\ \/ HtmlFragment \in Range(mt.analysisText)
                         \/ UpdatedContentMember \in Range(mt.analysisText)
                         \/ UpdatedContentLabel \in Range(mt.analysisText)
       IN /\ mt.analysisResult.summary \in {FallbackSummary, ParsingErrorSummary}
          /\ mt.analysisResult.shouldUpdate <=> phrase
          /\ mt.analysisResult.updatedContent # <<>> <=> content
          /\ (mt.pc = "appendToPage" \/ mt.append.op = "appendToPage") <=> (phrase /\ content)
          /\ mt.pc = "threw" => mt.append.op = "appendToPage"

C9_Witness ==
  /\ mt.analysed
  /\ JsonMatch(mt.analysisText) = <<>>
  /\ mt.analysisResult.shouldUpdate
  /\ mt.pc = "returned"
  /\ mt.result.updatedContent
  /\ mt.analysisResult.summary = FallbackSummary

\* ------------------------------------------------------------------------
\* Properties of the review pipeline (SpecReview)
\* ------------------------------------------------------------------------

\* C5 as stated: whenever the PR was fetched and no design-document URL was
\* extracted, reviewPR returns success=false with the missing-design-document
\* message and does not throw.
C5_Original ==
  (rv.pc \in {"returned", "threw"} /\ Event("extractConfluenceUrl", "null") \in Range(rv.events))
    => /\ rv.pc = "returned"
       /\ ~rv.result.success
       /\ rv.result.message = MissingDesignDocumentMessage

\* C5 as amended: whenever the PR was fetched and no design-document URL was
\* extracted, reviewPR attempts the missing-design-document notice; if that
\* post succeeds it returns success=false with the missing-design-document
\* message and does not throw, and if that post fails it throws the error of
\* the post.
C5_MissingDesignDocument ==
  /\ Event("extractConfluenceUrl", "null") \in Range(rv.events) =>
       /\ extractConfluenceUrl(IF rv.body = NullBody THEN <<>> ELSE rv.body) = NullUrl
       /\ rv.pc \in {"returned", "threw"} =>
            IF Event("addPullRequestComment.missing", "ok") \in Range(rv.events)
            THEN /\ rv.pc = "returned"
                 /\ ~rv.result.success
                 /\ rv.result.message = MissingDesignDocumentMessage
                 /\ rv.result.prNumber = rv.prNumber
            ELSE /\ rv.pc = "threw"
                 /\ Event("addPullRequestComment.missing", "fail") \in Range(rv.events)
                 /\ rv.thrown \in {AxiosError(f) : f \in FailStatuses}
  /\ (rv.pc = "returned" /\ ~rv.result.success) =>
       Event("extractConfluenceUrl", "null") \in Range(rv.events)

C5_Witness ==
  /\ rv.pc = "returned"
  /\ ~rv.result.success
  /\ rv.result.message = MissingDesignDocumentMessage
  /\ "confluence_design_document_url" \in Range(rv.body)
  /\ rv.comments = <<"missing">>

\* C6: the review pipeline is a strict sequence: a run that returns
\* success=true made the PR fetch, a non-null URL extraction, the document
\* fetch, the model call and the review-comment post, all successful and in
\* that order; after a null extraction the document is never fetched and the
\* model never called; the review comment is never posted unless the model
\* call succeeded.
C6_StrictSequence ==
  /\ (rv.pc = "returned" /\ rv.result.success) =>
       rv.events = << Event("getPullRequestDetails", "ok"),
                      Event("extractConfluenceUrl", "url"),
                      Event("getPageContent", "ok"),
                      Event("analyzeChanges", "ok"),
                      Event("addPullRequestComment.review", "ok") >>
  /\ Event("extractConfluenceUrl", "null") \in Range(rv.events) =>
       /\ rv.pc \notin {"getPageContent", "analyzeChanges", "postReviewComment"}
       /\ \A i \in 1..Len(rv.events) :
            rv.events[i][1] \notin {"getPageContent", "analyzeChanges", "addPullRequestComment.review"}
  /\ rv.pc \in {"getPageContent", "analyzeChanges", "postReviewComment"} =>
       Event("extractConfluenceUrl", "url") \in Range(rv.events)
  /\ (\/ rv.pc = "postReviewComment"
      \/ \E i \in 1..Len(rv.events) : rv.events[i][1] = "addPullRequestComment.review") =>
       \E i \in 1..Len(rv.events) :
         /\ rv.events[i] = Event("analyzeChanges", "ok")
         /\ i > 1
         /\ rv.events[i-1] = Event("getPageContent", "ok")

C6_Witness ==
  /\ rv.pc = "returned"
  /\ rv.result.success
  /\ rv.comments = <<"review">>

\* C7: when a step of reviewPR throws, exactly one error-notice comment is
\* attempted, after the failure, and the error of the failed step is the one
\* thrown to the caller, also when posting the notice fails.
C7_ErrorNoticeThenRethrow ==
  /\ rv.pc = "postErrorComment" =>
       /\ rv.error # NoError
       /\ rv.events[Len(rv.events)][2] = "fail"
       /\ \A i \in 1..Len(rv.events) : rv.events[i][1] # "addPullRequestComment.error"
  /\ rv.pc = "threw" =>
       /\ rv.thrown = rv.error
       /\ rv.thrown # NoError
       /\ Len(rv.events) >= 2
       /\ rv.events[Len(rv.events)][1] = "addPullRequestComment.error"
       /\ rv.events[Len(rv.events) - 1][2] = "fail"
       /\ Cardinality({i \in 1..Len(rv.events) :
                         rv.events[i][1] = "addPullRequestComment.error"}) = 1
       /\ Cardinality({i \in 1..Len(rv.events) : rv.events[i][2] = "fail"
                         /\ rv.events[i][1] # "addPullRequestComment.error"}) = 1
       /\ rv.events[Len(rv.events) - 1][1] = "analyzeChanges" =>
            rv.thrown \in {AxiosError(500), NewError("TypeError")}
       /\ rv.events[Len(rv.events) - 1][1] = "addPullRequestComment.review" =>
            rv.thrown = AxiosError(500)
  /\ rv.pc = "returned" =>
       \A i \in 1..Len(rv.events) : rv.events[i][1] # "addPullRequestComment.error"

C7_Witness ==
  /\ rv.pc = "threw"
  /\ rv.events[Len(rv.events)] = Event("addPullRequestComment.error", "fail")
  /\ rv.thrown = NewError("Confluence page not found")

\* ------------------------------------------------------------------------
\* Properties of batch processing (SpecBatch)
\* ------------------------------------------------------------------------

\* C10: a batch handles its items one at a time in input order: an item
\* starts only when the results of all earlier items are in the list, a
\* throwing item gives a success=false entry and the loop goes on, the batch
\* call never throws, and the results are one entry per item in input order.
C10_BatchInOrder ==
  [][/\ batch'.pc # "threw"
     /\ mbatch'.pc # "threw"
     /\ batch'.pc \in {"loop", "await", "returned"} =>
          /\ Len(batch'.results) = (IF batch'.pc = "await" THEN batch'.i - 1 ELSE batch'.i)
          /\ batch'.i <= Len(batch'.prNumbers)
          /\ \A k \in 1..Len(batch'.results) :
               batch'.results[k].prNumber = batch'.prNumbers[k]
          /\ batch'.pc = "returned" => Len(batch'.results) = Len(batch'.prNumbers)
          /\ IF batch'.pc = "await"
             THEN rv'.pc # "idle" /\ rv'.prNumber = batch'.prNumbers[batch'.i]
             ELSE rv'.pc = "idle"
     /\ mbatch'.pc \in {"loop", "await", "returned"} =>
          /\ Len(mbatch'.results) = (IF mbatch'.pc = "await" THEN mbatch'.i - 1 ELSE mbatch'.i)
          /\ mbatch'.i <= Len(mbatch'.meetings)
          /\ \A k \in 1..Len(mbatch'.results) :
               mbatch'.results[k].confluenceUrl = mbatch'.meetings[k]
          /\ mbatch'.pc = "returned" => Len(mbatch'.results) = Len(mbatch'.meetings)
          /\ IF mbatch'.pc = "await"
             THEN mt'.pc # "idle" /\ mt'.confluenceUrl = mbatch'.meetings[mbatch'.i]
             ELSE mt'.pc = "idle"
     /\ (batch.pc = "await" /\ rv.pc = "threw" /\ batch' # batch) =>
          /\ batch'.pc = "loop"
          /\ batch'.results = Append(batch.results,
               [NoReviewResult EXCEPT !.success = FALSE, !.prNumber = rv.prNumber,
                                      !.error = rv.thrown.msg])
     /\ (batch.pc = "await" /\ rv.pc = "returned" /\ batch' # batch) =>
          /\ batch'.pc = "loop"
          /\ batch'.results = Append(batch.results, rv.result)
     /\ (mbatch.pc = "await" /\ mt.pc = "threw" /\ mbatch' # mbatch) =>
          /\ mbatch'.pc = "loop"
          /\ Len(mbatch'.results) = Len(mbatch.results) + 1
          /\ ~mbatch'.results[Len(mbatch'.results)].success
          /\ mbatch'.results[Len(mbatch'.results)].error = mt.error.msg
     /\ (mbatch.pc = "await" /\ mt.pc = "returned" /\ mbatch' # mbatch) =>
          /\ mbatch'.pc = "loop"
          /\ mbatch'.results = Append(mbatch.results, mt.result)]_vars

C10_Witness ==
  \/ /\ batch.pc = "returned"
     /\ Len(batch.prNumbers) = 2
     /\ batch.results[1].error # ""
     /\ batch.results[2].success
  \/ /\ mbatch.pc = "returned"
     /\ Len(mbatch.meetings) = 2
     /\ ~mbatch.results[1].success
     /\ mbatch.results[2].success

\* ------------------------------------------------------------------------
\* Properties of the webhook server (SpecWebhook)
\* ------------------------------------------------------------------------

\* C11: with a secret configured and validation not disabled, a request
\* whose signature header is missing, malformed or not the HMAC-SHA256 of
\* the raw body under the secret is answered 401 and reaches no event
\* handler: no reviewer initialization, no review, no comment; under every
\* configuration a request reaches a handler only if verification returned
\* true.
C11_BadSignatureIsRejected ==
  wh.requests > 0 =>
    /\ (/\ wh.config.secret # ""
        /\ ~wh.config.skipSignatureValidation
        /\ wh.req.signature # <<"sha256=", wh.config.secret, wh.req.rawBody>>)
       => /\ wh.pc = "responded"
          /\ wh.res.status = 401
          /\ wh.handler = "none"
          /\ wh.inits = 0
          /\ wh.reviews = 0
          /\ wh.comments = <<>>
          /\ rv = IdleReview
    /\ (wh.handler # "none" \/ wh.inits > 0 \/ wh.reviews > 0 \/ rv.pc # "idle") => wh.verified
    /\ wh.res.status = 401 <=> (wh.pc = "responded" /\ ~wh.verified)

C11_Witness ==
  /\ wh.config.secret = WebhookSecret
  /\ ~wh.config.skipSignatureValidation
  /\ wh.prReviewer = "constructed"
  /\ wh.req.eventType = "pull_request"
  /\ wh.payload.action = "opened"
  /\ checkForDesignDocumentUrl(wh.payload.body)
  /\ wh.req.signature = Hmac(WebhookSecret, SignedBody)
  /\ wh.res.status = 401

\* C12 as stated: a review is triggered only for pull_request events with
\* action opened, synchronize or edited; a ping is answered with pong; every
\* other event type or action, and a payload that failed to parse, is
\* acknowledged with a success response and triggers no review.
C12_OnlyReviewableActionsTriggerReview ==
  (wh.requests > 0 /\ wh.verified) =>
    /\ (wh.inits > 0 \/ wh.reviews > 0 \/ rv.pc # "idle") =>
         /\ wh.req.eventType = "pull_request"
         /\ wh.payload.action \in {"opened", "synchronize", "edited"}
    /\ wh.req.eventType = "ping" =>
         /\ wh.pc = "responded"
         /\ wh.res = Response(200, "pong", "")
    /\ ~(wh.req.eventType = "pull_request"
           /\ wh.payload.action \in {"opened", "synchronize", "edited"}) =>
         /\ wh.pc = "responded"
         /\ wh.res.status = 200
         /\ wh.inits = 0
         /\ wh.reviews = 0

C14_ValidateBeforeDispatch ==
  [][/\ ws'.requests = ws.requests + 1 =>
          LET form == ws'.req
              url == form.confluence_design_document_url
              invalid == \/ url = <<>>
                         \/ form.meeting_summary = ""
                         \/ url[1] # <<"txt","https:">>
          IN /\ invalid =>
                  /\ ws'.pc = "responded"
                  /\ ws'.res.status = 400
                  /\ ws'.meetingSummarizer = ws.meetingSummarizer
                  /\ ws'.constructions = 0 /\ ws'.inits = 0 /\ ws'.runs = 0
                  /\ mt' = mt
                  /\ cs' = cs
                  /\ remote' = remote
             /\ ~invalid => ws'.pc \in {"initialize", "processMeeting"}
     /\ (ws'.pc = "responded" /\ ws.pc = "processMeeting") =>
          /\ mt.pc \in {"returned", "threw"}
          /\ mt.pc = "threw" =>
               /\ mt.error.msg # ""
               /\ ws'.res = Response(500, "", mt.error.msg)
          /\ mt.pc = "returned" => ws'.res.status = 200
     /\ (ws'.res.status = 200 /\ ws.res.status # 200) =>
          /\ ws.pc = "processMeeting"
          /\ mt.pc = "returned"
          /\ mt.result.success
     /\ ws'.pc = "responded" => ws'.res.status \in {200, 400, 500}]_vars

C14_Witness ==
  /\ ws.pc = "responded"
  /\ ws.meetingSummarizer = "constructed"
  /\ ws.req = Form(UrlNoScheme, "notes")
  /\ ws.res = Response(400, "", "Invalid Confluence URL format")
  /\ ws.runs = 0

\* ------------------------------------------------------------------------
\* Properties of the error taxonomy of the document client (SpecDoc)
\* ------------------------------------------------------------------------

\* C15: a failed write is classified by the status of the response: 404 a
\* page-not-found error, 401 or 403 an unauthorized error, 409 a
\* version-conflict error, 400 a validation error whose message holds the
\* field errors the remote reported, each one whole and in order; any other
\* failure is thrown as the original error, with its status and data; no
\* failed write gives a success result.
C15_WriteErrorTaxonomy ==
  \A w \in Writers :
    LET c == cs[w]
    IN (c.writes > 0 /\ c.putStatus # 200) =>
         /\ c.pc = "threw"
         /\ c.result = NoResult
         /\ c.putStatus = 404 => c.error.msg = "Confluence page not found"
         /\ c.putStatus \in {401, 403} => c.error.msg = "Unauthorized to update Confluence page"
         /\ c.putStatus = 409 => c.error.msg = "Confluence page has been modified by someone else"
         /\ c.putStatus = 400 =>
              /\ c.error.msg = "Bad request when updating Confluence page: "
              /\ c.error.details # <<>>
              /\ c.putData.hasErrors =>
                   /\ Len(c.error.details) = Max({2, 4 * Len(c.putData.errors) + 1})
                   /\ \A i \in 1..Len(c.putData.errors) :
                        SubSeq(c.error.details, 4 * i - 2, 4 * i) = <<"\"", c.putData.errors[i], "\"">>
         /\ c.putStatus \in {404, 401, 403, 409, 400} => c.error.status = 0 /\ c.error.data = NoData
         /\ c.putStatus \notin {404, 401, 403, 409, 400} =>
              c.error = [msg |-> "Request failed", details |-> <<>>,
                         status |-> c.putStatus, data |-> c.putData]

C15_Witness ==
  \E w \in Writers :
    /\ cs[w].pc = "threw"
    /\ cs[w].putStatus = 400
    /\ cs[w].putData.errors = <<"title: required", "body.value: invalid">>
    /\ cs[w].error.details = <<"[", "\"", "title: required", "\"", ",",
                                    "\"", "body.value: invalid", "\"", "]">>

\* ------------------------------------------------------------------------
\* Properties of getPageContent, as step 1 of processMeeting (SpecMeeting)
\* ------------------------------------------------------------------------

\* The error getPageContent throws for a 404
PageNotFoundError == NewError("Confluence page not found")

\* The error getPageContent throws for a URL no pattern matches
NoPageIdError == NewError("Could not extract page ID from Confluence URL")

\* processMeeting has thrown the error of its getPageContent call
GetPageContentFailed ==
  /\ mt.pc = "threw"
  /\ ~mt.pageGet.returned

\* C16 as stated: getPageContent fails with the not-found error when no
\* pattern matches the URL or when the remote answers 404.
C16_NoPatternIsNotFound ==
  (GetPageContentFailed /\ (extractPageId(mt.confluenceUrl) = NoPageId \/ mt.pageGet.status = 404)) =>
     mt.error = PageNotFoundError

\* C16: getPageContent fails with a "could not extract page ID" error, and
\* issues no HTTP request, when no pattern matches the URL; with the not-found
\* error when the remote answers 404; with an unauthorized error on 401 or
\* 403; any other failed GET is thrown as the original error; a page object
\* is returned only for a GET answered with 200.
C16_ReadErrorTaxonomy ==
  LET g == mt.pageGet
      noId == extractPageId(mt.confluenceUrl) = NoPageId
  IN /\ (mt.pc # "idle" /\ noId) =>
          /\ GetPageContentFailed
          /\ g.requests = 0 /\ g.status = -1
          /\ mt.error = NoPageIdError
          /\ mt.error # PageNotFoundError
     /\ (mt.pc # "idle" /\ ~noId) => g.requests = 1
     /\ g.status = 404 => GetPageContentFailed /\ mt.error = PageNotFoundError
     /\ g.status \in {401, 403} =>
          GetPageContentFailed /\ mt.error = NewError("Unauthorized to access Confluence page")
     /\ g.status \notin {-1, 200, 404, 401, 403} =>
          GetPageContentFailed /\ mt.error = AxiosError(g.status)
     /\ g.returned <=> g.status = 200
     /\ mt.fetched => g.returned

C16_Witness ==
  /\ GetPageContentFailed
  /\ mt.confluenceUrl = UrlNoId
  /\ mt.pageGet.requests = 0
  /\ mt.error = NoPageIdError

\* ------------------------------------------------------------------------
\* Properties of the response normalizer (SpecNormalize)
\* ------------------------------------------------------------------------

\* The argument has none of the shapes the function looks for
Unrecognized(d) ==
  /\ ~HasChoicesMessage(d)
  /\ ~HasOutputArray(d)
  /\ ~HasResponseString(d)
  /\ ~HasTextString(d)
  /\ d.t # "string"

\* C17 as stated: for every argument the function does not throw and
\* returns a string, which for an argument of no recognized shape is the
\* pretty-printed JSON of the argument.
C17_TotalAndReturnsString ==
  nz.pc = "returned" =>
    /\ ~nz.result.threw
    /\ nz.result.t = "string"
    /\ Unrecognized(nz.input) => nz.result = JsonText(nz.input)

\* The first item of type message is items[mi], and its first part of type
\* output_text is parts[ti], with a text
OutputTextAt(items, mi, ti) ==
  /\ items[mi].type = "message"
  /\ \A j \in 1..(mi - 1) : items[j].type # "message"
  /\ items[mi].content.kind = "array"
  /\ ti \in 1..Len(items[mi].content.parts)
  /\ items[mi].content.parts[ti].type = "output_text"
  /\ \A k \in 1..(ti - 1) : items[mi].content.parts[k].type # "output_text"
  /\ Truthy(items[mi].content.parts[ti].text)

HasOutputText(items) ==
  \E mi \in 1..Len(items) : \E ti \in 1..MaxParts + 1 : OutputTextAt(items, mi, ti)

\* C18: the shapes are looked for in a fixed order and the first one found
\* decides the result, whatever later shapes the argument carries too:
\* choices[0].message gives its content; else an output array gives the
\* output_text of its first message item, else the content of output[0] (a
\* string, or the text of its first part); else a string response member;
\* else a string text member; a string argument is returned as it is.
C18_FirstShapeWins ==
  nz.pc = "returned" =>
    LET d == nz.input
        r == nz.result
        items == d.output.items
    IN /\ HasChoicesMessage(d) => r = Returned(d.choices.content)
       /\ (~HasChoicesMessage(d) /\ HasOutputArray(d)) =>
            /\ \A mi \in 1..Len(items) : \A ti \in 1..MaxParts + 1 :
                 OutputTextAt(items, mi, ti) =>
                   r = Returned(items[mi].content.parts[ti].text)
            /\ (~HasOutputText(items) /\ Len(items) > 0) =>
                 /\ (items[1].content.kind = "string" /\ items[1].content.s # "") =>
                      r = Returned(Str(items[1].content.s))
                 /\ (/\ items[1].content.kind = "array"
                     /\ Len(items[1].content.parts) > 0
                     /\ Truthy(items[1].content.parts[1].text)) =>
                      r = Returned(items[1].content.parts[1].text)
            /\ HasResponseString(d) => r # Returned(d.response)
            /\ HasTextString(d) => r # Returned(d.text)
       /\ (~HasChoicesMessage(d) /\ ~HasOutputArray(d) /\ HasResponseString(d)) =>
            r = Returned(d.response)
       /\ (~HasChoicesMessage(d) /\ ~HasOutputArray(d) /\ ~HasResponseString(d) /\ HasTextString(d)) =>
            r = Returned(d.text)
       /\ d.t = "string" => r = Returned(Str(d.s))

C18_Witness ==
  /\ nz.pc = "returned"
  /\ nz.input.choices = ChoicesWithMessage(Str("cc"))
  /\ HasOutputText(nz.input.output.items)
  /\ nz.input.response = Str("rr")
  /\ nz.input.text = Str("tt")
  /\ nz.result = Returned(Str("cc"))

\* ------------------------------------------------------------------------
\* Properties of the sanitizer (SpecSanitize)
\* ------------------------------------------------------------------------

\* The names of the tags of s that are not escaped: the word after a "<",
\* or after "<" and "/"
LiveTagNames(s) ==
  {ToLower(s[i+1]) : i \in {j \in 1..(Len(s) - 1) : s[j] = "<" /\ IsWord(s[j+1])}}
    \cup {ToLower(s[i+2]) : i \in {j \in 1..(Len(s) - 2) : s[j] = "<" /\ s[j+1] = "/" /\ IsWord(s[j+2])}}

\* The number of tokens of s equal to tok
Count(s, tok) == Cardinality({i \in 1..Len(s) : s[i] = tok})

\* C19: after one call and after a second call on the result, every tag
\* that is not escaped has a name of the allow-list; a script tag of the
\* input is not among them: its name is kept in the text, and no "<" that
\* is not escaped stands before it.
C19_OnlyAllowedTagsAreLive ==
  sz.pc \in {"once", "twice"} =>
    /\ LiveTagNames(sz.once) \subseteq AllowedTags
    /\ sz.pc = "twice" => LiveTagNames(sz.twice) \subseteq AllowedTags
    /\ "script" \notin LiveTagNames(sz.once) \cup LiveTagNames(sz.twice)
    /\ \A r \in {sz.once, sz.twice} : \A i \in 1..Len(r) :
         r[i] = "<" =>
           /\ i < Len(r)
           /\ IsWord(r[i+1]) \/ (r[i+1] = "/" /\ i + 1 < Len(r) /\ IsWord(r[i+2]))
    /\ (~sz.caught /\ sz.content # NullContent) =>
         \A word \in {"script", "SCRIPT"} :
           /\ Count(sz.once, word) = Count(sz.content, word)
           /\ sz.pc = "twice" => Count(sz.twice, word) = Count(sz.content, word)

C19_Witness ==
  /\ sz.pc = "twice"
  /\ sz.content = <<"<", "p", ">", "hello", "<", "/", "p", ">", "<", "script", ">">>
  /\ sz.once = <<"<", "p", ">", "hello", "<", "/", "p", ">", "&lt;", "script", "&gt;">>
  /\ sz.twice = sz.once

\* No match of either tag pattern in s
NoTagsAtAll(s) == OpenTagNames(s, 1) = <<>> /\ CloseTagNames(s, 1) = <<>>

\* C20 as stated: an argument with no tags at all comes back as its text,
\* escaped, inside one paragraph.
C20_NoTagsInputIsOneParagraph ==
  (sz.pc = "once" /\ ~sz.caught /\ sz.content # NullContent /\ sz.content # <<>>
     /\ NoTagsAtAll(sz.content)) =>
       sz.once = WrapInParagraph(EscapeAll(sz.content))

\* C20: every call returns, and returns a non-empty string: an empty or
\* missing argument gives exactly <p>No content provided</p>; an argument
\* with no tags at all, and no entity-escaped tag of the allow-list either,
\* gives its escaped text inside one paragraph; an error thrown inside the
\* try block gives a paragraph that holds the message of the error.
C20_SanitizerTotal ==
  sz.pc \in {"once", "twice"} =>
    /\ sz.once # <<>>
    /\ sz.pc = "twice" => sz.twice # <<>>
    /\ (sz.content = NullContent \/ sz.content = <<>>) => sz.once = NoContentProvided
    /\ (/\ ~sz.caught /\ sz.content # NullContent /\ sz.content # <<>>
        /\ NoTagsAtAll(sz.content)
        /\ \A i \in 1..Len(sz.content) : SafeTagEnd(EscapeAll(sz.content), i) = 0) =>
          sz.once = WrapInParagraph(EscapeAll(sz.content))
    /\ sz.caught =>
          /\ sz.once = ErrorProcessingContent(LoggerFailed)
          /\ LoggerFailed \in Range(sz.once)

C20_Witness ==
  /\ sz.pc = "once"
  /\ sz.content = <<"hello">>
  /\ sz.once = <<"<", "p", ">", "hello", "<", "/", "p", ">">>

\* C21 as stated: what the sanitizer returns is grossly balanced: it has as
\* many opening tags that are not escaped, br, hr and img aside, as closing
\* tags that are not escaped.
C21_OutputIsBalanced ==
  (sz.pc \in {"once", "twice"} /\ ~sz.caught) =>
    Len(OpenTagsFiltered(sz.once)) = Len(CloseTagNames(sz.once, 1))

\* ------------------------------------------------------------------------
\* Properties of the model calls of the two pipelines (SpecBatch)
\* ------------------------------------------------------------------------

\* One call of the model client per invocation, and its error handed on
ModelCallOnce(call, pc, waiting, error) ==
  /\ call.requests <= 1
  /\ pc = waiting => call.requests = 1 /\ call.status = -1
  /\ call.status # -1 => call.requests = 1
  /\ call.status \notin {-1, 200} => error = AxiosError(call.status)

MissingSettings(config) == {name \in Range(requiredFields) : config[name] \in {Unset, ""}}

\* C23: validateConfig throws exactly when one of the seven required settings
\* is missing or empty, and the message names every missing one; each entry
\* point calls it before an orchestrator is constructed or a request is sent,
\* so with a missing setting the process exits with no outbound request
C23_ValidateBeforeServices ==
  /\ st.pc = "start" => (st.services = 0 /\ st.requests = 0)
  /\ st.pc \notin {"idle", "start"} =>
       /\ (st.validated = "threw") <=> (MissingSettings(st.config) # {})
       /\ st.validated \in {"ok", "threw"}
       /\ st.validated = "threw" =>
            /\ Range(st.missingNames) = MissingSettings(st.config)
            /\ st.pc = "exited" /\ st.exitCode = 1
       /\ (st.services > 0 \/ st.requests > 0) => st.validated = "ok"
       /\ MissingSettings(st.config) # {} => (st.services = 0 /\ st.requests = 0)

\* The web server started with an empty token and no e-mail address: it exits
\* naming both, and nothing was sent
C23_Witness ==
  /\ st.entry = "webServer"
  /\ st.config["GITHUB_TOKEN"] = ""
  /\ st.config["ATLASSIAN_EMAIL"] = Unset
  /\ st.pc = "exited"
  /\ st.missingNames = <<"GITHUB_TOKEN", "ATLASSIAN_EMAIL">>
  /\ st.requests = 0 /\ st.services = 0

\* ------------------------------------------------------------------------
\* C24
\* ------------------------------------------------------------------------
\* C24: when every outbound call is answered, every reviewPR and every
\* processMeeting that has started ends by returning or throwing, and
\* reviewMultiplePRs returns for every list of PR numbers
C24_PipelinesTerminate ==
  /\ (rv.pc \notin {"idle", "returned", "threw"}) ~> (rv.pc \in {"returned", "threw"})
  /\ (mt.pc \notin {"idle", "returned", "threw"}) ~> (mt.pc \in {"returned", "threw"})
  /\ (batch.pc \in {"loop", "await"}) ~> (batch.pc = "returned")

\* A batch of two has returned: the first review threw, the second returned
C24_Witness ==
  /\ batch.pc = "returned"
  /\ Len(batch.prNumbers) = 2
  /\ Len(batch.results) = 2
  /\ ~batch.results[1].success
  /\ batch.results[2].success

\* ------------------------------------------------------------------------
\* C25
\* ------------------------------------------------------------------------
\* C25: in appendToPage and safeUpdatePageContent the write follows the
\* getPageVersion read of the same operation with no other call of the
\* operation in between, and is made with the title, the status and the
\* version that read returned; the body the meeting pipeline appends to is
\* the content of that read, so what another writer saved after the
\* pipeline's first fetch and before that read is still in the page
C25_ReadThenWrite ==
  [][\A w \in Callers :
       /\ cs'[w].reads > cs[w].reads =>
            /\ cs[w].pc = "getPageVersion"
            /\ cs'[w].pc \in {"updatePageContent", "threw"}
            /\ cs'[w].pc = "updatePageContent" => cs'[w].pageInfo = getPageVersion(remote)
       /\ cs'[w].writes > cs[w].writes =>
            /\ cs[w].pc = "updatePageContent"
            /\ cs[w].reads = 1 /\ cs[w].writes = 0
            /\ cs[w].pageInfo.version = cs[w].readSeen.version
            /\ cs'[w].updateData.title = cs[w].pageInfo.title
            /\ cs'[w].updateData.status = cs[w].pageInfo.status
            /\ cs'[w].updateData.version = cs[w].pageInfo.version + 1
            /\ w = MeetingCaller =>
                 /\ mt.pc = "appendToPage" /\ mt' = mt
                 /\ cs'[w].updateData.body = cs[w].readSeen.content \o cs[w].newSection
                 /\ cs'[w].putStatus = 200 =>
                      /\ remote'.content = remote.content \o cs[w].newSection
                      /\ IsPrefix(cs[w].readSeen.content, remote'.content)]_vars

\* Another user saved an edit after the pipeline fetched the page and before
\* appendToPage read it: the append returned and the page holds both
C25_Witness ==
  /\ mt.pc = "returned"
  /\ mt.appended
  /\ mt.pageGet.seen.version = 1
  /\ mt.append.readSeen.version = 2
  /\ remote.version = 3
  /\ remote.content = DesignBody \o <<"edit">> \o mt.append.newSection
  /\ cs["w1"].op = "safeUpdatePageContent"
  /\ cs["w1"].putStatus = 409

\* ------------------------------------------------------------------------
\* C26
\* ------------------------------------------------------------------------
\* The number of places where sub occurs in seq
CountOccurrences(sub, seq) ==
  Cardinality({i \in 1..(Len(seq) - Len(sub) + 1) : SubSeq(seq, i, i + Len(sub) - 1) = sub})

Sections == {NewSection("Meeting Update", Today, content) : content \in Contents}

\* Writer w has an append accepted in this step
AppendAccepted(w) ==
  /\ cs[w].pc = "updatePageContent"
  /\ cs'[w].pc = "returned"
  /\ cs'[w].calls = cs[w].calls

InitialVersion == IF remote.status = "draft" THEN 5 ELSE 1

RECURSIVE SumOccurrences(_, _)
SumOccurrences(S, seq) ==
  IF S = {} THEN 0
  ELSE LET section == CHOOSE x \in S : TRUE
       IN  CountOccurrences(section, seq) + SumOccurrences(S \ {section}, seq)

\* C30: version accounting. The remote version changes only by an accepted
\* write, and then by one; after any sequence of appends it is the initial
\* version plus the number of accepted appends (one section in the page for
\* each); an append that returns gives previousVersion = the version it read
\* and newVersion = the remote version right after its write
C30_VersionAccounting ==
  /\ [](remote.version = InitialVersion + SumOccurrences(Sections, remote.content))
  /\ [][/\ remote'.version # remote.version =>
            (remote'.version = remote.version + 1 /\ \E w \in Writers : AppendAccepted(w))
        /\ \A w \in Writers :
             AppendAccepted(w) =>
               /\ remote'.version = remote.version + 1
               /\ cs'[w].result.success
               /\ cs'[w].result.previousVersion = cs[w].readSeen.version
               /\ cs'[w].result.newVersion = remote'.version]_vars

\* The draft page at version 5, read by both writers: one append returned
\* 5 and 6, the other was refused, and the page is at 6
C30_Witness ==
  /\ cs["w1"].pc = "returned"
  /\ cs["w1"].result.previousVersion = 5
  /\ cs["w1"].result.newVersion = 6
  /\ cs["w2"].pc = "threw"
  /\ cs["w2"].putStatus = 409
  /\ cs["w2"].readSeen.version = 5
  /\ remote.version = 6

\* ------------------------------------------------------------------------
\* C29
\* ------------------------------------------------------------------------
CommentCalls ==
  {"addPullRequestComment.review", "addPullRequestComment.missing", "addPullRequestComment.error"}

\* The comment posts among the calls made so far, with their outcomes
CommentAttempts == SelectSeq(rv.events, LAMBDA e : e[1] \in CommentCalls)

\* C29: one reviewPR posts a comment at most twice and at most one post
\* succeeds, so the review, the missing-document notice and the failure
\* notice exclude each other; a reviewPR that returns has posted exactly one
\* comment (the review or the missing-document notice)
C29_OneComment ==
  /\ Len(CommentAttempts) <= 2
  /\ Len(SelectSeq(CommentAttempts, LAMBDA e : e[2] = "ok")) = Len(rv.comments)
  /\ Len(rv.comments) <= 1
  /\ Len(CommentAttempts) = 2 =>
       /\ CommentAttempts[1][2] = "fail"
       /\ CommentAttempts[2][1] = "addPullRequestComment.error"
  /\ rv.pc = "returned" =>
       /\ Len(rv.comments) = 1
       /\ rv.comments[1] \in {"review", "missing"}
       /\ Len(CommentAttempts) = 1
  /\ (rv.pc = "threw" /\ rv.comments # <<>>) => rv.comments = <<"error">>

\* The review comment was refused and the failure notice was posted: two
\* attempts, one comment, and reviewPR threw
C29_Witness ==
  /\ rv.pc = "threw"
  /\ CommentAttempts = << Event("addPullRequestComment.review", "fail"),
                          Event("addPullRequestComment.error", "ok") >>
  /\ rv.comments = <<"error">>

\* ------------------------------------------------------------------------
\* C27, C28
\* ------------------------------------------------------------------------
\* C27 as stated: a pipeline is invoked only on an orchestrator whose
\* initialize() has completed successfully, also with concurrent requests and
\* after an initialization that failed
C27_PipelineOnInitialized ==
  \A h \in Handlers : lz.handlers[h].pc = "pipeline" => lz.handlers[h].onInitialized

\* C28: per server the orchestrator is constructed at most once and its
\* initialize() is called at most once, whatever the number and the
\* interleaving of the requests
C28_ConstructedOnce ==
  /\ lz.constructions <= 1
  /\ lz.initializeCalls <= 1
  /\ lz.initializeCalls = lz.constructions
  /\ (lz.orchestrator = "constructed") <=> (lz.constructions = 1)
  /\ lz.received > 0 => lz.constructions = 1

\* Three requests were received, two are in their pipelines at the same
\* time, and there was one construction and one initialize()
C28_Witness ==
  /\ lz.received = 3
  /\ \A h \in Handlers : lz.handlers[h].pc = "pipeline"
  /\ lz.constructions = 1
  /\ lz.initializeCalls = 1

====
